---- MODULE Spec2Model ----
(***************************************************************************)
(* A model of the DefiLlama client (src/defillama/client.py) and of its    *)
(* identifier resolvers (src/defillama/utils.py).                          *)
(*                                                                         *)
(* Python strings are sequences of one-character strings, so that          *)
(* str.lower(), str.isnumeric() and int() are computed and not assumed.    *)
(* Python values that reach the resolvers and the request builder are      *)
(* tagged records (int, str, None, bool, literal of the code).             *)
(***************************************************************************)
EXTENDS Integers, Sequences, FiniteSets, TLC

\* ------------------------------------------------------------------ bounds
\* longest string drawn as a caller's input
MaxLen == 2
\* longest display name drawn for a listing entry of the resolver model
MaxNameLen == 1
\* largest key of a listing drawn for the resolver model
MaxKey == 2
\* number of public calls made on the clients in one behaviour
MaxCalls == 2
\* number of times the upstream data changes (one more entry each time)
MaxVer == 2
\* attempts of one request the model follows
MaxAttempts == 8

\* ------------------------------------------------------- strings and values
UpperCase == <<"A", "B", "C", "D", "E", "F", "G", "H", "I", "J", "K", "L", "M",
               "N", "O", "P", "Q", "R", "S", "T", "U", "V", "W", "X", "Y", "Z">>
LowerCase == <<"a", "b", "c", "d", "e", "f", "g", "h", "i", "j", "k", "l", "m",
               "n", "o", "p", "q", "r", "s", "t", "u", "v", "w", "x", "y", "z">>
DigitChars == <<"0", "1", "2", "3", "4", "5", "6", "7", "8", "9">>

Range(f) == {f[i] : i \in DOMAIN f}

\* str.lower() on one character
LowerChar(ch) ==
    IF ch \in Range(UpperCase)
    THEN LowerCase[CHOOSE i \in DOMAIN UpperCase : UpperCase[i] = ch]
    ELSE ch

\* str.lower()
StrLower(s) == [i \in 1..Len(s) |-> LowerChar(s[i])]

\* str.isnumeric(): non-empty and every character a digit
IsNumeric(s) == Len(s) > 0 /\ \A i \in 1..Len(s) : s[i] \in Range(DigitChars)

DigitVal(ch) == (CHOOSE i \in DOMAIN DigitChars : DigitChars[i] = ch) - 1

\* int(s) for a string of digits
RECURSIVE StrToInt(_)
StrToInt(s) ==
    IF Len(s) = 0 THEN 0
    ELSE 10 * StrToInt(SubSeq(s, 1, Len(s) - 1)) + DigitVal(s[Len(s)])

\* str(n) for n >= 0
RECURSIVE IntToStr(_)
IntToStr(n) ==
    IF n < 10 THEN <<DigitChars[n + 1]>>
    ELSE IntToStr(n \div 10) \o <<DigitChars[(n % 10) + 1]>>

\* tagged Python values
IntV(n) == [t |-> "int", n |-> n, s |-> <<>>, lit |-> ""]
StrV(s) == [t |-> "str", n |-> 0, s |-> s, lit |-> ""]
BoolV(b) == [t |-> "bool", n |-> IF b THEN 1 ELSE 0, s |-> <<>>, lit |-> ""]
LitV(l) == [t |-> "lit", n |-> 0, s |-> <<>>, lit |-> l]
NoneV == [t |-> "none", n |-> 0, s |-> <<>>, lit |-> ""]
\* Coin(chain, address), a dict (keys to strings), a list and a tuple
CoinV(chain, address) == [t |-> "coin", chain |-> chain, address |-> address]
DictV(d) == [t |-> "dict", d |-> d]
ListV(items) == [t |-> "list", items |-> items]
TupleV(items) == [t |-> "tuple", items |-> items]

\* truth value of a Python value (None, 0, "" and False are falsy)
Truthy(v) ==
    CASE v.t = "int" -> v.n # 0
      [] v.t = "bool" -> v.n = 1
      [] v.t = "str" -> Len(v.s) > 0
      [] v.t = "lit" -> v.lit # ""
      [] v.t = "coin" -> TRUE
      [] v.t = "dict" -> DOMAIN v.d # {}
      [] v.t \in {"list", "tuple"} -> Len(v.items) > 0
      [] OTHER -> FALSE

\* int(v) for an int or a string of digits
PyInt(v) == IF v.t = "str" THEN StrToInt(v.s) ELSE v.n

\* ------------------------------------------------------------------ listings
\* A listing is a dict (ordered entries k -> v, distinct keys) or a list
\* (entries with a key only).
DictOf(items) == [kind |-> "dict", items |-> items]
ListOf(keys) == [kind |-> "list", items |-> [i \in 1..Len(keys) |-> [k |-> keys[i], v |-> <<>>]]]
NoListing == [kind |-> "none", items |-> <<>>]

\* `entity in entities` (keys of a dict, elements of a list)
Contains(entities, entity) == \E i \in 1..Len(entities.items) : entities.items[i].k = entity

\* index of the first entry whose value equals name, exactly or ignoring
\* case; 0 when there is none: next((k for k, v in d.items() if ...), None)
FirstMatch(entities, name) ==
    LET hits == {i \in 1..Len(entities.items) :
                    \/ entities.items[i].v = name
                    \/ StrLower(entities.items[i].v) = StrLower(name)}
    IN IF hits = {} THEN 0 ELSE CHOOSE i \in hits : \A j \in hits : i <= j

\* ------------------------------------------------------------------- results
\* An exception and its message: the template and what it interpolates.
NoErr == [exc |-> "none", tmpl |-> "", label |-> "", entity |-> NoneV,
          listed |-> FALSE, options |-> NoListing]
Err(exc, tmpl, label, entity, listed, options) ==
    [exc |-> exc, tmpl |-> tmpl, label |-> label, entity |-> entity,
     listed |-> listed, options |-> options]

Return(v) == [ok |-> TRUE, val |-> v, err |-> NoErr]
Raise(e) == [ok |-> FALSE, val |-> NoneV, err |-> e]

\* --------------------------------------------------- resolvers (utils.py)
validate_searched_entity_skip(entity, entities, entity_type) == NoErr

\* validate_searched_entity: the error to raise, NoErr when the entity is in
\* the listing
validate_searched_entity(entity, entities, entity_type) ==
    IF ~Contains(entities, entity)
    THEN Err("ValueError", "Invalid {type}: {entity}. Available: {entities}",
             entity_type, entity, TRUE, entities)
    ELSE NoErr

\* the tail of both resolvers: validate the id found, then return it
Validated(id, entities, entity_type) ==
    LET e == validate_searched_entity(id, entities, entity_type)
    IN IF e.exc # "none" THEN Raise(e) ELSE Return(id)

get_bridge_id_exact_case(bridge, bridges) ==
    IF bridge.t = "str" /\ ~IsNumeric(bridge.s)
    THEN LET hits == {i \in 1..Len(bridges.items) : bridges.items[i].v = bridge.s}
         IN IF hits = {}
            THEN Raise(Err("ValueError", "Invalid bridge: {bridge}. Available bridges: {bridges}",
                           "bridge", bridge, TRUE, bridges))
            ELSE Validated(bridges.items[CHOOSE i \in hits : \A j \in hits : i <= j].k,
                           bridges, "bridge")
    ELSE Validated(IntV(PyInt(bridge)), bridges, "bridge")

get_bridge_id(bridge, bridges) ==
    IF bridge.t = "str" /\ ~IsNumeric(bridge.s)
    THEN LET i == FirstMatch(bridges, bridge.s)
         IN IF i = 0
            THEN Raise(Err("ValueError", "Invalid bridge: {bridge}. Available bridges: {bridges}",
                           "bridge", bridge, TRUE, bridges))
            ELSE Validated(bridges.items[i].k, bridges, "bridge")
    ELSE IF bridge.t = "none"
    THEN Raise(Err("TypeError", "int() argument", "", bridge, FALSE, NoListing))
    ELSE Validated(IntV(PyInt(bridge)), bridges, "bridge")

get_stablecoin_id_unchecked(stablecoin, stablecoins) ==
    IF stablecoin.t = "str" /\ ~IsNumeric(stablecoin.s)
    THEN LET i == FirstMatch(stablecoins, stablecoin.s)
         IN IF i = 0
            THEN Raise(Err("ValueError",
                           "Invalid stablecoin: {stablecoin}. Available stablecoins: {stablecoins}",
                           "stablecoin", stablecoin, TRUE, stablecoins))
            ELSE Return(stablecoins.items[i].k)
    ELSE Return(IntV(PyInt(stablecoin)))

get_stablecoin_id(stablecoin, stablecoins) ==
    IF stablecoin.t = "str" /\ ~IsNumeric(stablecoin.s)
    THEN LET i == FirstMatch(stablecoins, stablecoin.s)
         IN IF i = 0
            THEN Raise(Err("ValueError",
                           "Invalid stablecoin: {stablecoin}. Available stablecoins: {stablecoins}",
                           "stablecoin", stablecoin, TRUE, stablecoins))
            ELSE Validated(stablecoins.items[i].k, stablecoins, "stablecoin")
    ELSE IF stablecoin.t \in {"int", "bool", "str"}
    THEN Validated(IntV(PyInt(stablecoin)), stablecoins, "stablecoin")
    ELSE Raise(Err("ValueError", "Invalid stablecoin", "stablecoin", NoneV, FALSE, NoListing))

\* ------------------------------------------ pool resolution (client.py)
HexChars == Range(DigitChars) \cup {"a", "b", "c", "d", "e", "f", "A", "B", "C", "D", "E", "F"}
\* number of hex digits of a UUID (uuid.UUID rejects any other length)
UuidHexLen == 32

\* uuid.UUID(s) does not raise: hyphens removed, 32 hex digits are left
IsUuid(s) ==
    LET hex == SelectSeq(s, LAMBDA ch : ch # "-")
    IN Len(hex) = UuidHexLen /\ \A i \in 1..Len(hex) : hex[i] \in HexChars

\* get_pool_historical_apy_and_tvl, lines 652-668: the pool id to request.
\* The pools listing is read only when the input is no well-formed UUID.
ResolvePool(pool, pools) ==
    IF IsUuid(pool.s)
    THEN Return(pool)
    ELSE LET i == FirstMatch(pools, pool.s)
         IN IF i = 0
            THEN Raise(Err("ValueError",
                           "Invalid pool: {pool}. To see available pools, use DefiLlamaClient().list_pools()",
                           "pool", pool, FALSE, NoListing))
            ELSE Return(pools.items[i].k)

\* --------------------------------------- membership checks of the methods
\* The methods that validate one chain or protocol argument against a list
\* listing: the attribute read, whether the argument is lowercased before
\* the check (x.lower()), and the label passed as entity_type.
MemberSites == {
    [method |-> "get_protocol", attr |-> "_protocols", lowered |-> TRUE, label |-> "protocol"],
    [method |-> "get_historical_tvl_for_chain", attr |-> "_chains", lowered |-> TRUE, label |-> "chain"],
    [method |-> "get_current_tvl_for_protocol", attr |-> "_protocols", lowered |-> TRUE, label |-> "protocol"],
    [method |-> "get_stablecoins_historical_martket_cap_in_chain", attr |-> "_chains", lowered |-> TRUE,
     label |-> "chain"],
    [method |-> "get_bridge_volume", attr |-> "_dex_chains", lowered |-> FALSE, label |-> "chain"],
    [method |-> "get_bridge_day_stats", attr |-> "_dex_chains", lowered |-> FALSE, label |-> "chain"],
    [method |-> "get_bridge_transactions", attr |-> "_dex_chains", lowered |-> FALSE, label |-> "chain"],
    [method |-> "get_dexes_volume_overview_for_chain", attr |-> "_dex_chains", lowered |-> FALSE,
     label |-> "chain"],
    [method |-> "get_summary_of_dex_volume_with_historical_data", attr |-> "_dex_protocols",
     lowered |-> TRUE, label |-> "dex protocol"],
    [method |-> "get_overview_dexes_options_for_chain", attr |-> "_dex_options_chains", lowered |-> FALSE,
     label |-> "chain"],
    [method |-> "get_summary_of_options_volume_with_historical_data_for_protocol",
     attr |-> "_dex_options_protocols", lowered |-> TRUE, label |-> "protocol"],
    [method |-> "get_fees_and_revenues_for_all_protocols_for_chain", attr |-> "_fees_chains",
     lowered |-> TRUE, label |-> "chain"],
    [method |-> "get_summary_of_protocols_fees_and_revenue", attr |-> "_fees_protocols", lowered |-> TRUE,
     label |-> "protocol"],
    [method |-> "get_the_closest_block_to_timestamp", attr |-> "_chains", lowered |-> FALSE,
     label |-> "chain"]}

SiteOf(method) == CHOOSE site \in MemberSites : site.method = method

CheckMember_raw(method, raw, entities) ==
    validate_searched_entity(raw, entities, SiteOf(method).label)

\* the validate_searched_entity(...) call of a method of MemberSites
CheckMember(method, raw, entities) ==
    LET site == SiteOf(method)
    IN validate_searched_entity(IF site.lowered THEN StrV(StrLower(raw.s)) ELSE raw,
                                entities, site.label)

\* ------------------------------------------- coin serialization (utils.py)
IsStr(v) == v.t \in {"str", "lit"}

\* f"{chain}:{address}"
ChainAddress(chain, address) == StrV(chain \o <<":">> \o address)

\* _prepare_token
PrepareToken(token) ==
    CASE token.t = "coin" -> Return(ChainAddress(token.chain, token.address))
      [] token.t = "dict" ->
            IF "chain" \notin DOMAIN token.d
            THEN Raise(Err("KeyError", "'chain'", "", token, FALSE, NoListing))
            ELSE IF "address" \notin DOMAIN token.d
            THEN Raise(Err("KeyError", "'address'", "", token, FALSE, NoListing))
            ELSE Return(ChainAddress(token.d["chain"], token.d["address"]))
      [] OTHER -> Return(token)

\* ",".join(strs) of strings
RECURSIVE CommaJoin(_)
CommaJoin(strs) ==
    IF Len(strs) = 0 THEN <<>>
    ELSE IF Len(strs) = 1 THEN strs[1].s
    ELSE strs[1].s \o <<",">> \o CommaJoin(Tail(strs))

\* [_prepare_token(token) for token in coins]: the first exception raised,
\* if any, else the tokens
PrepareTokens(coins) ==
    LET failed == {i \in 1..Len(coins) : ~PrepareToken(coins[i]).ok}
    IN IF failed # {}
       THEN PrepareToken(coins[CHOOSE i \in failed : \A j \in failed : i <= j])
       ELSE Return(ListV([i \in 1..Len(coins) |-> PrepareToken(coins[i]).val]))

\* ",".join(tokens): TypeError when an element is no string
JoinTokens(tokens) ==
    IF \E i \in 1..Len(tokens) : ~IsStr(tokens[i])
    THEN Raise(Err("TypeError", "sequence item {i}: expected str instance", "", NoneV,
                   FALSE, NoListing))
    ELSE Return(StrV(CommaJoin(tokens)))

RECURSIVE Dedup(_)
Dedup(q) ==
    IF Len(q) = 0 THEN <<>>
    ELSE LET head == Dedup(SubSeq(q, 1, Len(q) - 1))
         IN IF \E i \in 1..Len(head) : head[i] = q[Len(q)] THEN head ELSE Append(head, q[Len(q)])

prepare_coins_for_request_dedup(coins) ==
    CASE IsStr(coins) -> Return(coins)
      [] coins.t = "list" ->
            IF ~PrepareTokens(coins.items).ok THEN PrepareTokens(coins.items)
            ELSE JoinTokens(Dedup(PrepareTokens(coins.items).val.items))
      [] coins.t \in {"coin", "dict"} -> PrepareToken(coins)
      [] OTHER -> Raise(Err("ValueError", "Unsupported type: {type}", "", coins, FALSE, NoListing))

\* prepare_coins_for_request
prepare_coins_for_request(coins) ==
    CASE IsStr(coins) -> Return(coins)
      [] coins.t = "list" ->
            IF ~PrepareTokens(coins.items).ok THEN PrepareTokens(coins.items)
            ELSE JoinTokens(PrepareTokens(coins.items).val.items)
      [] coins.t \in {"coin", "dict"} -> PrepareToken(coins)
      [] OTHER -> Raise(Err("ValueError", "Unsupported type: {type}", "", coins, FALSE, NoListing))

\* ------------------------------------------------ request builder (client.py)
Sections == {"tvl", "coins", "stablecoins", "yields", "bridges", "volumes", "fees"}

\* DefiLlamaClient.__init__: self._urls
Urls == [section \in Sections |->
            CASE section = "tvl" -> "https://api.llama.fi"
              [] section = "coins" -> "https://coins.llama.fi"
              [] section = "stablecoins" -> "https://stablecoins.llama.fi"
              [] section = "yields" -> "https://yields.llama.fi"
              [] section = "bridges" -> "https://bridges.llama.fi"
              [] section = "volumes" -> "https://api.llama.fi"
              [] section = "fees" -> "https://api.llama.fi"]

ResolveApiUrl_fallback(section) ==
    IF section \notin DOMAIN Urls THEN Return(LitV(Urls["tvl"])) ELSE Return(LitV(Urls[section]))

\* _resolve_api_url
ResolveApiUrl(section) ==
    IF section \notin DOMAIN Urls
    THEN Raise(Err("ValueError", "Invalid section: {section}", "section", LitV(section),
                   FALSE, NoListing))
    ELSE Return(LitV(Urls[section]))

\* str(v) of a dict, a list or a tuple: its repr, which is not a string the
\* code built from the parts of v
ReprV(v) == [t |-> "repr", of |-> v]

\* str(arg) of a path segment
PyStr(v) ==
    CASE v.t = "int" -> IF v.n < 0 THEN StrV(<<"-">> \o IntToStr(-v.n)) ELSE StrV(IntToStr(v.n))
      [] v.t \in {"dict", "list", "tuple"} -> ReprV(v)
      [] v.t = "bool" -> LitV(IF v.n = 1 THEN "True" ELSE "False")
      [] v.t = "none" -> LitV("None")
      [] OTHER -> v

\* "/".join(parts)
RECURSIVE Join(_)
Join(parts) ==
    IF Len(parts) = 0 THEN <<>>
    ELSE IF Len(parts) = 1 THEN <<parts[1]>>
    ELSE <<parts[1], LitV("/")>> \o Join(Tail(parts))

BuildEndpointUrl_trailing(section, endpoint, args) ==
    LET url == <<ResolveApiUrl(section).val, LitV("/"), LitV(endpoint)>>
        kept == SelectSeq(args, Truthy)
    IN url \o <<LitV("/")>> \o Join([i \in 1..Len(kept) |-> PyStr(kept[i])])

\* _build_endpoint_url: the URL as the sequence of its pieces
BuildEndpointUrl(section, endpoint, args) ==
    LET url == <<ResolveApiUrl(section).val, LitV("/"), LitV(endpoint)>>
        kept == SelectSeq(args, Truthy)
    IN IF Len(args) > 0
       THEN url \o <<LitV("/")>> \o Join([i \in 1..Len(kept) |-> PyStr(kept[i])])
       ELSE url

Param(name, val) == [name |-> name, val |-> val]

\* the query string requests builds from params: a parameter whose value is
\* None is left out, every other value is sent in its string form
EncodeParams_truthy(params) ==
    LET kept == SelectSeq(params, LAMBDA p : Truthy(p.val))
    IN [i \in 1..Len(kept) |-> Param(kept[i].name, PyStr(kept[i].val))]

EncodeParams(params) ==
    LET kept == SelectSeq(params, LAMBDA p : p.val.t # "none")
    IN [i \in 1..Len(kept) |-> Param(kept[i].name, PyStr(kept[i].val))]

\* what _get passes to self.session.get: the URL and params=query_params;
\* `for` records the cached listing a request is the defining fetch of,
\* `via` the session that sent it and `query` the query string it was sent
\* with (0 and empty until it is sent)
Request(section, endpoint, args, params) ==
    [url |-> BuildEndpointUrl(section, endpoint, args), params |-> params, for |-> "",
     via |-> 0, query |-> <<>>]

\* <session>.get(url, params=query_params): the request as it goes out
SessionGet(via, request) ==
    [request EXCEPT !.via = via, !.query = EncodeParams(request.params)]

\* the keyword arguments of the overview methods, at their defaults
OverviewParams(dataType) ==
    <<Param("excludeTotalDataChart", BoolV(TRUE)),
      Param("excludeTotalDataChartBreakdown", BoolV(TRUE)),
      Param("dataType", LitV(dataType))>>

\* get_dexes_volume_overview, get_overview_dexes_options and
\* get_fees_and_revenues_for_all_protocols called without arguments
DexesOverviewRequest == Request("volumes", "overview", <<LitV("dexs")>>, OverviewParams("dailyVolume"))
OptionsOverviewRequest ==
    Request("volumes", "overview", <<LitV("options")>>, OverviewParams("dailyPremiumVolume"))
FeesOverviewRequest == Request("fees", "overview", <<LitV("fees")>>, OverviewParams("dailyFees"))

\* ------------------------------------------------------ the cached listings
Attrs == {"_chains", "_protocols", "_bridges", "_stablecoins", "_pools",
          "_dex_protocols", "_dex_chains", "_dex_options_protocols",
          "_dex_options_chains", "_fees_protocols", "_fees_chains"}

\* the request each cached_property issues to compute its listing
DefiningRequest(attr) ==
    [(CASE attr = "_chains" -> Request("tvl", "v2", <<LitV("chains")>>, <<>>)
        [] attr = "_protocols" -> Request("tvl", "protocols", <<>>, <<>>)
        [] attr = "_bridges" -> Request("bridges", "bridges", <<>>, <<>>)
        [] attr = "_stablecoins" -> Request("stablecoins", "stablecoins", <<>>, <<>>)
        [] attr = "_pools" -> Request("yields", "pools", <<>>, <<>>)
        [] attr \in {"_dex_protocols", "_dex_chains"} -> DexesOverviewRequest
        [] attr \in {"_dex_options_protocols", "_dex_options_chains"} -> OptionsOverviewRequest
        [] attr \in {"_fees_protocols", "_fees_chains"} -> FeesOverviewRequest)
     EXCEPT !.for = attr]

\* ------------------------------------------------------------ upstream data
\* The data the API serves at version v has v entries per listing; the i-th
\* entry has display name NameOf(i), slug SlugOf(i), id i, pool id PoolId(i).
NameOf(i) == <<UpperCase[i], LowerCase[i + 1]>>
SlugOf(i) == StrLower(NameOf(i))
PoolId(i) == [j \in 1..36 |-> IF j \in {9, 14, 19, 24} THEN "-"
                              ELSE IF j = 36 THEN DigitChars[i + 1] ELSE "a"]

\* GET tvl v2/chains: every chain appears twice, in two spellings
ChainsJson(v) == [i \in 1..(2 * v) |-> [name |-> IF i <= v THEN NameOf(i) ELSE SlugOf(i - v)]]
\* GET tvl protocols
ProtocolsJson(v) == [i \in 1..v |-> [slug |-> SlugOf(i)]]
\* GET bridges bridges
BridgesJson(v) == [bridges |-> [i \in 1..v |-> [id |-> IntV(i), name |-> NameOf(i)]]]
\* GET stablecoins stablecoins (ids are served as strings)
StablecoinsJson(v) ==
    [peggedAssets |-> [i \in 1..v |-> [id |-> StrV(IntToStr(i)), symbol |-> NameOf(i)]]]
\* GET yields pools
PoolsJson(v) == [data |-> [i \in 1..v |-> [pool |-> StrV(PoolId(i)), symbol |-> NameOf(i)]]]
\* GET overview/dexs, overview/options, overview/fees
OverviewJson(v) == [protocols |-> [i \in 1..v |-> [name |-> NameOf(i)]],
                    allChains |-> [i \in 1..v |-> NameOf(i)]]

\* ------------------------------------------- bodies of the cached properties
IsAlnum(ch) == ch \in Range(UpperCase) \cup Range(LowerCase) \cup Range(DigitChars)

\* slugify(name): lowercase, every run of other characters becomes one "-",
\* none at either end
RECURSIVE Collapse(_)
Collapse(s) ==
    IF Len(s) <= 1 THEN s
    ELSE IF s[1] = "-" /\ s[2] = "-" THEN Collapse(Tail(s))
    ELSE <<s[1]>> \o Collapse(Tail(s))

Strip(s) ==
    LET a == IF Len(s) > 0 /\ s[1] = "-" THEN Tail(s) ELSE s
    IN IF Len(a) > 0 /\ a[Len(a)] = "-" THEN SubSeq(a, 1, Len(a) - 1) ELSE a

Slugify(name) ==
    Strip(Collapse([i \in 1..Len(name) |-> IF IsAlnum(name[i]) THEN LowerChar(name[i]) ELSE "-"]))

\* d[k] = v on an insertion-ordered dict
DictPut(items, k, v) ==
    IF \E i \in 1..Len(items) : items[i].k = k
    THEN [i \in 1..Len(items) |-> IF items[i].k = k THEN [k |-> k, v |-> v] ELSE items[i]]
    ELSE Append(items, [k |-> k, v |-> v])

\* {k: v for ...} from the pairs in the order the comprehension yields them
RECURSIVE DictFrom(_)
DictFrom(pairs) ==
    IF Len(pairs) = 0 THEN <<>>
    ELSE DictPut(DictFrom(SubSeq(pairs, 1, Len(pairs) - 1)),
                 pairs[Len(pairs)].k, pairs[Len(pairs)].v)

\* the orders in which list(set) may enumerate a set
Orderings(set) == {f \in [1..Cardinality(set) -> set] : \A i, j \in DOMAIN f : f[i] = f[j] => i = j}

ChainSet(v) == {StrV(StrLower(ChainsJson(v)[i].name)) : i \in DOMAIN ChainsJson(v)}
ProtocolSet(v) == {StrV(ProtocolsJson(v)[i].slug) : i \in DOMAIN ProtocolsJson(v)}

\* the listing a cached property computes from the upstream data of version
\* v; order.chains and order.protocols are the orders list(set) produces
BuildListing(attr, v, order) ==
    CASE attr = "_chains" -> ListOf(order.chains)
      [] attr = "_protocols" -> ListOf(order.protocols)
      [] attr = "_bridges" ->
            DictOf(DictFrom([i \in DOMAIN BridgesJson(v).bridges |->
                               [k |-> IntV(PyInt(BridgesJson(v).bridges[i].id)),
                                v |-> BridgesJson(v).bridges[i].name]]))
      [] attr = "_stablecoins" ->
            DictOf(DictFrom([i \in DOMAIN StablecoinsJson(v).peggedAssets |->
                               [k |-> IntV(PyInt(StablecoinsJson(v).peggedAssets[i].id)),
                                v |-> StablecoinsJson(v).peggedAssets[i].symbol]]))
      [] attr = "_pools" ->
            DictOf(DictFrom([i \in DOMAIN PoolsJson(v).data |->
                               [k |-> PoolsJson(v).data[i].pool, v |-> PoolsJson(v).data[i].symbol]]))
      [] attr \in {"_dex_protocols", "_dex_options_protocols", "_fees_protocols"} ->
            ListOf([i \in DOMAIN OverviewJson(v).protocols |->
                       StrV(Slugify(OverviewJson(v).protocols[i].name))])
      [] attr \in {"_dex_chains", "_dex_options_chains", "_fees_chains"} ->
            ListOf([i \in DOMAIN OverviewJson(v).allChains |->
                       StrV(StrLower(OverviewJson(v).allChains[i]))])

\* ==================================================================== state
VARIABLES
    cache,      \* cache[c][attr]: the listing the cached_property attr stored on client c
    fetched,    \* fetched[c][attr]: defining fetches of attr answered to client c so far
    ver,        \* version of the data the API serves
    last,       \* the last public call: client, method, arguments, the upstream
                \* version it ran against, requests sent, outcome
    calls,      \* number of public calls made so far
    session,    \* session[c]: the requests.Session the attribute _session of client c holds
    created,    \* number of sessions get_retry_session has created in the process
    tx,         \* request model: one _get, prepare_coins_for_request or
                \* _handle_response call, step by step
    th,         \* thread model: two threads reading one cached property of a
                \* client, each at its place in cached_property.__get__
    rAttr,      \* resolver model: the attribute the listing is a value of
    rListing,   \* resolver model: the listing
    rRaw,       \* resolver model: the caller's identifier
    rSite,      \* resolver model: the resolver that ran ("" before it runs)
    rOut        \* resolver model: what it returned or raised

vars == <<cache, fetched, ver, last, calls, session, created, tx, th, rAttr, rListing, rRaw, rSite,
         rOut>>
clientVars == <<cache, fetched, ver, last, calls, session, created>>
resolverVars == <<rAttr, rListing, rRaw, rSite, rOut>>

Clients == {"c1", "c2"}

\* __init__: self._session = get_retry_session()
SessionOf(c) == IF c = "c1" THEN 1 ELSE 2

IsSet(listing) == listing.kind # "none"

\* ------------------------------------------------ one call, step by step
\* a response: its status, its body text and whether the text is JSON;
\* the failure drawn for a call of a client is a status the session does not
\* retry
OkResponse == [status |-> 200, json |-> TRUE, text |-> "{}"]
BadResponses == {[status |-> 404, json |-> TRUE, text |-> "{}"]}
\* the ways a request can fail: an error status, a body that is no JSON, and
\* JSON that lacks the fields the caller reads
FaultResponses ==
    BadResponses \cup {[status |-> 200, json |-> FALSE, text |-> "not json"],
                       [status |-> 200, json |-> TRUE, text |-> "{\"unexpected\": 1}"]}

\* response.raise_for_status(): HTTPError for 4xx and 5xx
RaiseForStatus(response) ==
    IF response.status >= 400 /\ response.status < 600
    THEN Err("HTTPError",
             IF response.status < 500 THEN "{status} Client Error" ELSE "{status} Server Error",
             "", IntV(response.status), FALSE, NoListing)
    ELSE NoErr

\* response.json(): the structure the body text stands for
JsonV(text) == [t |-> "json", n |-> 0, s |-> <<>>, lit |-> text]

HandleResponse_decode_first(response) ==
    IF ~response.json
    THEN Err("InvalidResponseDataException", "Invalid data: {response.text}", "",
             LitV(response.text), FALSE, NoListing)
    ELSE RaiseForStatus(response)

HandleResponse_no_text(response) ==
    IF RaiseForStatus(response).exc # "none" THEN RaiseForStatus(response)
    ELSE IF ~response.json
    THEN Err("InvalidResponseDataException", "Invalid data", "", NoneV, FALSE, NoListing)
    ELSE NoErr

\* _handle_response: the error it raises, NoErr when it returns the data
HandleResponse(response) ==
    IF RaiseForStatus(response).exc # "none" THEN RaiseForStatus(response)
    ELSE IF ~response.json
    THEN Err("InvalidResponseDataException", "Invalid data: {response.text}", "",
             LitV(response.text), FALSE, NoListing)
    ELSE NoErr

\* what the network does to one call: its at-th request gets the response
\* bad, every other one is answered
NoFailure == [at |-> 0, bad |-> OkResponse]

NoOrder == [chains |-> <<>>, protocols |-> <<>>]

\* the orders list(set) may produce, for the listings built through a set
\* that the call may have to compute
OrderChoices(c, attrs) ==
    {[chains |-> oc, protocols |-> op] :
        oc \in IF "_chains" \in attrs /\ ~IsSet(cache[c]["_chains"])
               THEN Orderings(ChainSet(ver)) ELSE {<<>>},
        op \in IF "_protocols" \in attrs /\ ~IsSet(cache[c]["_protocols"])
               THEN Orderings(ProtocolSet(ver)) ELSE {<<>>}}

\* a call in progress: the instance's cached listings, the requests sent so
\* far, the exception raised (NoErr while running) and the identifier the
\* call resolved
Start(c, net, order) ==
    [cache |-> cache[c], gets |-> <<>>, exc |-> NoErr, id |-> NoneV, net |-> net, order |-> order,
     session |-> session[c], created |-> created]

Raised(st) == st.exc.exc # "none"

\* the response to the next request
Response(st) == IF Len(st.gets) + 1 = st.net.at THEN st.net.bad ELSE OkResponse

DoGet_unguarded(st, request) ==
    IF Raised(st) THEN [st EXCEPT !.gets = Append(@, SessionGet(st.session, request))]
    ELSE [st EXCEPT !.gets = Append(@, SessionGet(st.session, request)),
                    !.exc = HandleResponse(Response(st))]

\* _get: send the request and handle the response (nothing is sent once the
\* call has raised)
DoGet(st, request) ==
    IF Raised(st) THEN st
    ELSE [st EXCEPT !.gets = Append(@, SessionGet(st.session, request)),
                    !.exc = HandleResponse(Response(st))]

\* the response to the request sent last
Answer(st) == IF Len(st.gets) = st.net.at THEN st.net.bad ELSE OkResponse

\* x["name"] on an element of a payload without the fields (TypeError: the
\* elements of a dict are its keys), self._get(...)["bridges"] on such a
\* payload (KeyError)
MissingField(attr) ==
    Err(IF attr \in {"_chains", "_protocols"} THEN "TypeError" ELSE "KeyError",
        "", "", NoneV, FALSE, NoListing)

Compute_store_failed(st, attr) ==
    IF Raised(st) \/ Answer(st).text # OkResponse.text
    THEN [st EXCEPT !.cache[attr] = ListOf(<<>>)]
    ELSE [st EXCEPT !.cache[attr] = BuildListing(attr, ver, st.order)]

\* the body of a cached property after its _get: compute the listing, which
\* cached_property then stores on the instance; nothing is stored when the
\* body raises
Compute(st, attr) ==
    IF Raised(st) THEN st
    ELSE IF Answer(st).text # OkResponse.text THEN [st EXCEPT !.exc = MissingField(attr)]
    ELSE [st EXCEPT !.cache[attr] = BuildListing(attr, ver, st.order)]

Access_chained(st, attr) ==
    IF Raised(st) \/ IsSet(st.cache[attr]) THEN st
    ELSE IF attr \in {"_dex_chains", "_dex_options_chains", "_fees_chains"}
    THEN Compute(DoGet(Compute(DoGet(st, DefiningRequest("_bridges")), "_bridges"),
                       DefiningRequest(attr)), attr)
    ELSE Compute(DoGet(st, DefiningRequest(attr)), attr)

Access_refetch(st, attr) ==
    IF Raised(st) THEN st
    ELSE Compute(DoGet([st EXCEPT !.order =
                          [chains |-> CHOOSE o \in Orderings(ChainSet(ver)) : TRUE,
                           protocols |-> CHOOSE o \in Orderings(ProtocolSet(ver)) : TRUE]],
                       DefiningRequest(attr)), attr)

\* self.<attr> of a functools.cached_property: the stored listing, or fetch,
\* compute and store it
Access(st, attr) ==
    IF Raised(st) \/ IsSet(st.cache[attr]) THEN st
    ELSE Compute(DoGet(st, DefiningRequest(attr)), attr)

\* a validation or resolution step: raise its error, if any
Check(st, err) == IF Raised(st) \/ err.exc = "none" THEN st ELSE [st EXCEPT !.exc = err]

\* validate_searched_entity(<argument>, self.<attr>, <label>) of a method of
\* MemberSites, on the listing just read
Validate(st, method, raw) ==
    Check(st, CheckMember(method, raw, st.cache[SiteOf(method).attr]))

\* a resolver returned or raised
Resolved(st, r) == IF Raised(st) THEN st ELSE [Check(st, r.err) EXCEPT !.id = r.val]

NoRet == [kind |-> "none", attr |-> "", field |-> ""]
\* return self.<attr>
ListingRet(attr) == [kind |-> "listing", attr |-> attr, field |-> ""]
\* return the decoded response, or response[field]
JsonRet(field) == [kind |-> "json", attr |-> "", field |-> field]

Returned_whole(st, ret) ==
    [kind |-> IF Raised(st) THEN "none" ELSE ret.kind,
     field |-> "",
     listing |-> IF ~Raised(st) /\ ret.kind = "listing" THEN st.cache[ret.attr]
                 ELSE IF ~Raised(st) /\ ret.kind = "ids" THEN ListOf(ret.ids)
                 ELSE NoListing]

\* what the caller gets back: a listing, a list of ids, or the decoded
\* response (field "") or the value under one of its keys
Returned(st, ret) ==
    [kind |-> IF Raised(st) THEN "none" ELSE ret.kind,
     field |-> IF Raised(st) THEN "" ELSE ret.field,
     listing |-> IF ~Raised(st) /\ ret.kind = "listing" THEN st.cache[ret.attr]
                 ELSE IF ~Raised(st) /\ ret.kind = "ids" THEN ListOf(ret.ids)
                 ELSE NoListing]

NoCall == [client |-> "", method |-> "", args |-> <<>>, ver |-> 0, gets |-> <<>>, err |-> NoErr,
           ret |-> [kind |-> "none", field |-> "", listing |-> NoListing]]

\* number of defining fetches of attr among the requests that were answered
AnsweredFetches(st, attr) ==
    Cardinality({i \in 1..Len(st.gets) :
                    st.gets[i].for = attr /\ ~(Raised(st) /\ i = st.net.at)})

Finish_shared(c, method, args, st, ret) ==
    /\ cache' = [d \in Clients |-> st.cache]
    /\ fetched' = [fetched EXCEPT ![c] = [a \in Attrs |-> @[a] + AnsweredFetches(st, a)]]
    /\ last' = [client |-> c, method |-> method, args |-> args, ver |-> ver, gets |-> st.gets,
                err |-> st.exc, ret |-> Returned(st, ret)]
    /\ calls' = calls + 1
    /\ created' = st.created
    /\ UNCHANGED <<ver, session, tx, th, resolverVars>>

\* the call returns or raises: what it leaves on the instance
Finish(c, method, args, st, ret) ==
    /\ cache' = [cache EXCEPT ![c] = st.cache]
    /\ fetched' = [fetched EXCEPT ![c] = [a \in Attrs |-> @[a] + AnsweredFetches(st, a)]]
    /\ last' = [client |-> c, method |-> method, args |-> args, ver |-> ver, gets |-> st.gets,
                err |-> st.exc, ret |-> Returned(st, ret)]
    /\ calls' = calls + 1
    /\ created' = st.created
    /\ UNCHANGED <<ver, session, tx, th, resolverVars>>

\* what the network may do to a call whose body, unhindered, ends in st: it
\* answers every request, or fails one of those the body sends
NetChoicesOf(st, faults) ==
    {NoFailure} \cup {[at |-> k, bad |-> b] : k \in 1..Len(st.gets), b \in faults}

\* the same, when a request fails by an error status only
NetChoices(st) == NetChoicesOf(st, BadResponses)

\* ------------------------------------------------------------------- inputs
\* identifiers a caller passes: the first entry's name in lower case and as
\* the API spells it, and a name no listing has
Unknown == <<"z", "z">>
NameInputs == {StrV(SlugOf(1)), StrV(NameOf(1)), StrV(Unknown)}
\* a bridge or stablecoin: by name in another case, by id, unknown
IdInputs == {StrV(SlugOf(1)), IntV(1), StrV(Unknown)}
\* a pool: by symbol in another case, unknown, by a listed id, by a
\* well-formed id that no listing has
PoolInputs == {StrV(SlugOf(1)), StrV(Unknown), StrV(PoolId(1)), StrV(PoolId(9))}
Timestamp == IntV(1700)

\* ------------------------------------------------------------ list_* methods
ListMethods == {
    [method |-> "list_protocols", attr |-> "_protocols"],
    [method |-> "list_chains", attr |-> "_chains"],
    [method |-> "list_bridges", attr |-> "_bridges"],
    [method |-> "list_stablecoins", attr |-> "_stablecoins"],
    [method |-> "list_pools", attr |-> "_pools"],
    [method |-> "list_dex_chains", attr |-> "_dex_chains"],
    [method |-> "list_dex_protocols", attr |-> "_dex_protocols"],
    [method |-> "list_options_protocols", attr |-> "_dex_options_protocols"],
    [method |-> "list_options_chains", attr |-> "_dex_options_chains"],
    [method |-> "list_fees_protocols", attr |-> "_fees_protocols"],
    [method |-> "list_fees_chains", attr |-> "_fees_chains"]}

\* list_protocols .. list_fees_chains: return self.<attr>, on a network that
\* fails in the ways of faults
ListAccess(c, faults) ==
    /\ calls < MaxCalls
    /\ \E lm \in ListMethods :
       \E order \in OrderChoices(c, {lm.attr}) :
          LET Run(net) == Access(Start(c, net, order), lm.attr)
          IN \E net \in NetChoicesOf(Run(NoFailure), faults) :
                Finish(c, lm.method,
                       <<>>, Run(net), ListingRet(lm.attr))

ListAccessor(c) == ListAccess(c, BadResponses)

\* ------------------------------------------- methods that validate nothing
PlainMethods == {
    [method |-> "get_protocols", request |-> Request("tvl", "protocols", <<>>, <<>>), field |-> ""],
    [method |-> "get_historical_tvl_of_defi_on_all_chains",
     request |-> Request("tvl", "v2", <<LitV("historicalChainTvl")>>, <<>>), field |-> ""],
    [method |-> "get_current_tvl_of_all_chains",
     request |-> Request("tvl", "v2", <<LitV("chains")>>, <<>>), field |-> ""],
    [method |-> "get_stablecoins",
     request |-> Request("stablecoins", "stablecoins", <<>>, <<Param("includePrices", BoolV(TRUE))>>),
     field |-> "peggedAssets"],
    [method |-> "get_current_stablecoins_market_cap",
     request |-> Request("stablecoins", "stablecoinchains", <<>>, <<>>), field |-> ""],
    [method |-> "get_stablecoins_historical_prices",
     request |-> Request("stablecoins", "stablecoinprices", <<>>, <<>>), field |-> ""],
    [method |-> "get_pools", request |-> Request("yields", "pools", <<>>, <<>>), field |-> "data"],
    [method |-> "get_bridges",
     request |-> Request("bridges", "bridges", <<>>, <<Param("includeChains", BoolV(TRUE))>>),
     field |-> "bridges"],
    [method |-> "get_dexes_volume_overview", request |-> DexesOverviewRequest, field |-> ""],
    [method |-> "get_overview_dexes_options", request |-> OptionsOverviewRequest, field |-> ""],
    [method |-> "get_fees_and_revenues_for_all_protocols", request |-> FeesOverviewRequest,
     field |-> ""]}

\* get_protocols .. get_fees_and_revenues_for_all_protocols: one _get
PlainEndpoint(c) ==
    /\ calls < MaxCalls
    /\ \E pm \in PlainMethods :
          LET Run(net) == DoGet(Start(c, net, NoOrder), pm.request)
          IN \E net \in NetChoices(Run(NoFailure)) :
                Finish(c, pm.method,
                       <<>>, Run(net), JsonRet(pm.field))

\* ------------------------- methods that validate one chain or one protocol
SimpleMemberMethods ==
    {site.method : site \in MemberSites} \
        {"get_stablecoins_historical_martket_cap_in_chain", "get_bridge_volume",
         "get_bridge_day_stats", "get_bridge_transactions"}

\* the request of a method of SimpleMemberMethods: the argument goes into
\* the path as the caller gave it
MemberRequest(method, raw) ==
    CASE method = "get_protocol" -> Request("tvl", "protocol", <<raw>>, <<>>)
      [] method = "get_historical_tvl_for_chain" ->
            Request("tvl", "v2", <<LitV("historicalChainTvl"), raw>>, <<>>)
      [] method = "get_current_tvl_for_protocol" -> Request("tvl", "tvl", <<raw>>, <<>>)
      [] method = "get_dexes_volume_overview_for_chain" ->
            Request("volumes", "overview", <<LitV("dexs"), raw>>, OverviewParams("dailyVolume"))
      [] method = "get_summary_of_dex_volume_with_historical_data" ->
            Request("volumes", "summary", <<LitV("dexs"), raw>>, OverviewParams("dailyVolume"))
      [] method = "get_overview_dexes_options_for_chain" ->
            Request("volumes", "overview", <<LitV("options"), raw>>,
                    OverviewParams("dailyPremiumVolume"))
      [] method = "get_summary_of_options_volume_with_historical_data_for_protocol" ->
            Request("volumes", "summary", <<LitV("options"), raw>>,
                    <<Param("dataType", LitV("dailyPremiumVolume"))>>)
      [] method = "get_fees_and_revenues_for_all_protocols_for_chain" ->
            Request("fees", "overview", <<LitV("fees"), raw>>, OverviewParams("dailyFees"))
      [] method = "get_summary_of_protocols_fees_and_revenue" ->
            Request("fees", "summary", <<LitV("fees"), raw>>, <<Param("dataType", LitV("dailyFees"))>>)
      [] method = "get_the_closest_block_to_timestamp" ->
            Request("coins", "block", <<raw, Timestamp>>, <<>>)

\* validate_searched_entity(<argument>, self.<attr>, <label>), then _get, on
\* a network that fails in the ways of faults
MemberAccess(c, faults) ==
    /\ calls < MaxCalls
    /\ \E method \in SimpleMemberMethods, raw \in NameInputs :
       \E order \in OrderChoices(c, {SiteOf(method).attr}) :
          LET Run(net) == DoGet(Validate(Access(Start(c, net, order), SiteOf(method).attr),
                                         method, raw),
                                MemberRequest(method, raw))
          IN \E net \in NetChoicesOf(Run(NoFailure), faults) :
                Finish(c, method,
                       <<raw>>, Run(net), JsonRet(""))

MemberEndpoint(c) == MemberAccess(c, BadResponses)

\* --------------------------------------------------- stablecoin methods
\* get_stablecoin_id(stablecoin, self._stablecoins), on the listing just read
ResolveStablecoin(st, stablecoin) ==
    Resolved(st, get_stablecoin_id(stablecoin, st.cache["_stablecoins"]))

OptionalStablecoin_eager(st, stablecoin) ==
    IF Truthy(stablecoin)
    THEN ResolveStablecoin(Access(st, "_stablecoins"), stablecoin)
    ELSE IF Raised(st) THEN st ELSE [Access(st, "_stablecoins") EXCEPT !.id = stablecoin]

\* get_stablecoin_id(stablecoin, self._stablecoins) if stablecoin else stablecoin
OptionalStablecoin(st, stablecoin) ==
    IF Truthy(stablecoin)
    THEN ResolveStablecoin(Access(st, "_stablecoins"), stablecoin)
    ELSE IF Raised(st) THEN st ELSE [st EXCEPT !.id = stablecoin]

\* _get("stablecoins", "stablecoincharts", <segment>, stablecoin=<id>)
GetStablecoinCharts(st, segment) ==
    DoGet(st, Request("stablecoins", "stablecoincharts", <<segment>>,
                      <<Param("stablecoin", st.id)>>))

get_stablecoin_historical_market_cap(c) ==
    /\ calls < MaxCalls
    /\ \E stablecoin \in IdInputs \cup {NoneV} :
          LET Run(net) == GetStablecoinCharts(
                              OptionalStablecoin(Start(c, net, NoOrder), stablecoin), LitV("all"))
          IN \E net \in NetChoices(Run(NoFailure)) :
                Finish(c, "get_stablecoin_historical_market_cap",
                       <<stablecoin>>, Run(net), JsonRet(""))

get_stablecoins_historical_martket_cap_in_chain(c) ==
    /\ calls < MaxCalls
    /\ \E chain \in NameInputs, stablecoin \in IdInputs \cup {NoneV} :
       \E order \in OrderChoices(c, {"_chains"}) :
          LET Run(net) == GetStablecoinCharts(
                              OptionalStablecoin(
                                  Validate(Access(Start(c, net, order), "_chains"),
                                           "get_stablecoins_historical_martket_cap_in_chain", chain),
                                  stablecoin),
                              chain)
          IN \E net \in NetChoices(Run(NoFailure)) :
                Finish(c, "get_stablecoins_historical_martket_cap_in_chain",
                       <<chain, stablecoin>>, Run(net), JsonRet(""))

\* _get("stablecoins", "stablecoin", <id>)
GetStablecoin(st) == DoGet(st, Request("stablecoins", "stablecoin", <<st.id>>, <<>>))

get_stablecoins_historical_market_cap_and_chain_distribution(c) ==
    /\ calls < MaxCalls
    /\ \E stablecoin \in IdInputs :
          LET Run(net) == GetStablecoin(
                              ResolveStablecoin(Access(Start(c, net, NoOrder), "_stablecoins"),
                                                stablecoin))
          IN \E net \in NetChoices(Run(NoFailure)) :
                Finish(c, "get_stablecoins_historical_market_cap_and_chain_distribution",
                       <<stablecoin>>, Run(net), JsonRet(""))

\* ------------------------------------------------------------- pool method
\* self._pools is read only when uuid.UUID(pool) raises
PoolListing(st, pool) == IF IsUuid(pool.s) THEN st ELSE Access(st, "_pools")

\* _get("yields", "chart", <pool id>)
GetPoolChart(st) == DoGet(st, Request("yields", "chart", <<st.id>>, <<>>))

get_pool_historical_apy_and_tvl(c) ==
    /\ calls < MaxCalls
    /\ \E pool \in PoolInputs :
          LET Listed(net) == PoolListing(Start(c, net, NoOrder), pool)
              Run(net) == GetPoolChart(Resolved(Listed(net),
                                                ResolvePool(pool, Listed(net).cache["_pools"])))
          IN \E net \in NetChoices(Run(NoFailure)) :
                Finish(c, "get_pool_historical_apy_and_tvl",
                       <<pool>>, Run(net), JsonRet("data"))

\* ---------------------------------------------------------- bridge methods
\* get_bridge_id(bridge, self._bridges), on the listing just read
ResolveBridge(st, bridge) == Resolved(st, get_bridge_id(bridge, st.cache["_bridges"]))

OptionalBridge_swallow(st, bridge) ==
    IF Truthy(bridge)
    THEN [Access(st, "_bridges") EXCEPT !.id = NoneV]
    ELSE st

\* get_bridge_id(bridge, self._bridges) if bridge else None
OptionalBridge(st, bridge) ==
    IF Truthy(bridge)
    THEN ResolveBridge(Access(st, "_bridges"), bridge)
    ELSE st

\* _get("bridges", "bridge", <id>)
GetBridge(st) == DoGet(st, Request("bridges", "bridge", <<st.id>>, <<>>))

get_bridge(c) ==
    /\ calls < MaxCalls
    /\ \E bridge \in IdInputs :
          LET Run(net) == GetBridge(ResolveBridge(Access(Start(c, net, NoOrder), "_bridges"), bridge))
          IN \E net \in NetChoices(Run(NoFailure)) :
                Finish(c, "get_bridge",
                       <<bridge>>, Run(net), JsonRet(""))

\* _get("bridges", "bridgevolume", chain, id=<id>)
GetBridgeVolume(st, chain) ==
    DoGet(st, Request("bridges", "bridgevolume", <<chain>>, <<Param("id", st.id)>>))

get_bridge_volume(c) ==
    /\ calls < MaxCalls
    /\ \E chain \in NameInputs, bridge \in IdInputs \cup {NoneV} :
          LET Run(net) == GetBridgeVolume(
                              OptionalBridge(
                                  Validate(Access(Start(c, net, NoOrder), "_dex_chains"),
                                           "get_bridge_volume", chain),
                                  bridge),
                              chain)
          IN \E net \in NetChoices(Run(NoFailure)) :
                Finish(c, "get_bridge_volume",
                       <<chain, bridge>>, Run(net), JsonRet(""))

\* _get("bridges", "bridgedaystats", timestamp, chain, id=<id>)
GetBridgeDayStats(st, chain) ==
    DoGet(st, Request("bridges", "bridgedaystats", <<Timestamp, chain>>, <<Param("id", st.id)>>))

get_bridge_day_stats(c) ==
    /\ calls < MaxCalls
    /\ \E chain \in NameInputs, bridge \in IdInputs \cup {NoneV} :
          LET Run(net) == GetBridgeDayStats(
                              OptionalBridge(
                                  Validate(Access(Start(c, net, NoOrder), "_dex_chains"),
                                           "get_bridge_day_stats", chain),
                                  bridge),
                              chain)
          IN \E net \in NetChoices(Run(NoFailure)) :
                Finish(c, "get_bridge_day_stats",
                       <<chain, bridge>>, Run(net), JsonRet(""))

\* if source_chain: validate_searched_entity(source_chain, self._dex_chains, "chain")
OptionalSourceChain(st, source_chain) ==
    IF Truthy(source_chain)
    THEN Validate(Access(st, "_dex_chains"), "get_bridge_transactions", source_chain)
    ELSE st

\* _get("bridges", "transactions", <id>, starttimestamp=..., ..., limit=...)
GetBridgeTransactions(st, source_chain) ==
    DoGet(st, Request("bridges", "transactions", <<st.id>>,
                      <<Param("starttimestamp", NoneV),
                        Param("endtimestamp", NoneV),
                        Param("sourcechain", source_chain),
                        Param("address", NoneV),
                        Param("limit", IntV(10))>>))

get_bridge_transactions(c) ==
    /\ calls < MaxCalls
    /\ \E bridge \in IdInputs, source_chain \in NameInputs \cup {NoneV} :
          LET Run(net) == GetBridgeTransactions(
                              OptionalSourceChain(
                                  ResolveBridge(Access(Start(c, net, NoOrder), "_bridges"), bridge),
                                  source_chain),
                              source_chain)
          IN \E net \in NetChoices(Run(NoFailure)) :
                Finish(c, "get_bridge_transactions",
                       <<bridge, source_chain>>, Run(net), JsonRet(""))

\* ------------------------------------------------------------ coin methods
\* coins a caller passes: one string, a list mixing a Coin and a mapping, and
\* a value of an unsupported type
CoinInputs == {StrV(<<"e", ":", "x">>),
               ListV(<<CoinV(<<"e">>, <<"x">>), DictV([chain |-> <<"b">>, address |-> <<"y">>])>>),
               IntV(5)}

\* coins_to_search = prepare_coins_for_request(coins)
PrepareCoins(st, coins) == Resolved(st, prepare_coins_for_request(coins))

\* _get("coins", "prices", "current", coins_to_search, searchWidth=search_width)
GetCurrentPrices(st, search_width) ==
    DoGet(st, Request("coins", "prices", <<LitV("current"), st.id>>,
                      <<Param("searchWidth", search_width)>>))

get_current_prices_of_tokens_by_contract_address(c) ==
    /\ calls < MaxCalls
    /\ \E coins \in CoinInputs, search_width \in {NoneV, LitV("4h")} :
          LET Run(net) == GetCurrentPrices(PrepareCoins(Start(c, net, NoOrder), coins), search_width)
          IN \E net \in NetChoices(Run(NoFailure)) :
                Finish(c, "get_current_prices_of_tokens_by_contract_address",
                       <<coins, search_width>>, Run(net), JsonRet(""))

\* _get("coins", "prices", "historical", timestamp, coins_to_search,
\*      searchWidth=search_width)
GetHistoricalPrices(st, timestamp) ==
    DoGet(st, Request("coins", "prices", <<LitV("historical"), timestamp, st.id>>,
                      <<Param("searchWidth", NoneV)>>))

get_historical_prices_of_tokens_by_contract_address(c) ==
    /\ calls < MaxCalls
    /\ \E coins \in CoinInputs, timestamp \in {IntV(0), Timestamp} :
          LET Run(net) == GetHistoricalPrices(PrepareCoins(Start(c, net, NoOrder), coins), timestamp)
          IN \E net \in NetChoices(Run(NoFailure)) :
                Finish(c, "get_historical_prices_of_tokens_by_contract_address",
                       <<coins, timestamp>>, Run(net), JsonRet(""))

\* _get("coins", "percentage", coins_to_search, timestamp=timestamp,
\*      lookForward=look_forward, period=period)
GetPercentage(st, timestamp, look_forward) ==
    DoGet(st, Request("coins", "percentage", <<st.id>>,
                      <<Param("timestamp", timestamp),
                        Param("lookForward", look_forward),
                        Param("period", LitV("24h"))>>))

get_percentage_change_in_coin_price(c) ==
    /\ calls < MaxCalls
    /\ \E coins \in CoinInputs, timestamp \in {NoneV, IntV(0)}, look_forward \in BOOLEAN :
          LET Run(net) == GetPercentage(PrepareCoins(Start(c, net, NoOrder), coins),
                                        timestamp, BoolV(look_forward))
          IN \E net \in NetChoices(Run(NoFailure)) :
                Finish(c, "get_percentage_change_in_coin_price",
                       <<coins, timestamp, BoolV(look_forward)>>, Run(net), JsonRet(""))

\* seconds of timedelta(days=1), and the largest days a timedelta takes
SecondsPerDay == 86400
MaxTimedeltaDays == 999999999

\* datetime.datetime.now().timestamp() at the time of the call, in seconds
NowInputs == {1700000000, 1700000060}

\* get_previous_timestamp(delta_days): now minus that many days;
\* timedelta(days=delta_days) raises OverflowError beyond its range
get_previous_timestamp(delta_days, now) ==
    IF delta_days > MaxTimedeltaDays \/ delta_days < -MaxTimedeltaDays
    THEN Raise(Err("OverflowError", "days={days}; must have magnitude <= 999999999", "",
                   IntV(delta_days), FALSE, NoListing))
    ELSE Return(IntV(now - delta_days * SecondsPerDay))

\* the start values a caller passes: none, 0, a number of days, a Unix
\* timestamp
StartInputs == {NoneV, IntV(0), IntV(90), IntV(1600000000)}

\* start = get_previous_timestamp(start) if start else None
CandleStart(start, now) ==
    IF Truthy(start) THEN get_previous_timestamp(start.n, now) ELSE Return(NoneV)

\* _get("coins", "chart", coins_to_search, start=start, end=end, span=span,
\*      period=period, searchWidth=search_width)
GetCandle(st, start) ==
    DoGet(st, Request("coins", "chart", <<st.id>>,
                      <<Param("start", start),
                        Param("end", NoneV),
                        Param("span", NoneV),
                        Param("period", NoneV),
                        Param("searchWidth", NoneV)>>))

get_token_prices_candle(c) ==
    /\ calls < MaxCalls
    /\ \E coins \in CoinInputs, start \in StartInputs, now \in NowInputs :
          LET Run(net) == GetCandle(PrepareCoins(Check(Start(c, net, NoOrder),
                                                       CandleStart(start, now).err),
                                                 coins),
                                    CandleStart(start, now).val)
          IN \E net \in NetChoices(Run(NoFailure)) :
                Finish(c, "get_token_prices_candle",
                       <<coins, start>>, Run(net), JsonRet(""))

\* coins a caller passes to get_earliest_timestamp_price_record_for_coins: a
\* string, a mapping, a list of mappings, a list of strings
EarliestInputs == {StrV(<<"e", ":", "x">>),
                   DictV([chain |-> <<"b">>, address |-> <<"y">>]),
                   ListV(<<DictV([chain |-> <<"e">>, address |-> <<"x">>]),
                           DictV([chain |-> <<"b">>, address |-> <<"y">>])>>),
                   ListV(<<StrV(<<"e", ":", "x">>), StrV(<<"b", ":", "y">>)>>)}

\* _get("coins", "prices", "first", coins)
GetEarliest(st, coins) == DoGet(st, Request("coins", "prices", <<LitV("first"), coins>>, <<>>))

get_earliest_timestamp_price_record_for_coins(c) ==
    /\ calls < MaxCalls
    /\ \E coins \in EarliestInputs :
          LET Run(net) == GetEarliest(Start(c, net, NoOrder), coins)
          IN \E net \in NetChoices(Run(NoFailure)) :
                Finish(c, "get_earliest_timestamp_price_record_for_coins",
                       <<coins>>, Run(net), JsonRet(""))

\* ----------------------------------------------------- CoinGecko coin ids
\* the ids in resources/coingecko_ids.json and the ids the CoinGecko API lists
FileIds == <<LitV("bitcoin"), LitV("ethereum")>>
ApiIds == <<LitV("bitcoin"), LitV("ethereum"), LitV("litecoin")>>

CoingeckoRequest ==
    [url |-> <<LitV("https://api.coingecko.com/api/v3/coins/list")>>, params |-> <<>>,
     for |-> "", via |-> 0, query |-> <<>>]

\* utils.get_coingecko_coin_ids after session.get: raise_for_status() under
\* try/except HTTPError, then response.json()
CoingeckoError(response) ==
    IF RaiseForStatus(response).exc # "none"
    THEN Err("HTTPError", "Error retrieving CoinGecko IDs", "", NoneV, FALSE, NoListing)
    ELSE IF ~response.json
    THEN Err("JSONDecodeError", "", "", NoneV, FALSE, NoListing)
    ELSE NoErr

\* utils.get_coingecko_coin_ids: session = get_retry_session(), then
\* session.get(...) on that new session
GetCoingeckoCoinIds(st) ==
    [st EXCEPT !.created = @ + 1,
               !.gets = Append(@, SessionGet(st.created + 1, CoingeckoRequest)),
               !.exc = CoingeckoError(Response(st))]

\* coingecko_ids[skip : skip + limit] if limit else coingecko_ids[skip:]
Slice(ids, skip, limit) ==
    LET to == IF Truthy(limit) THEN skip + limit.n ELSE Len(ids)
    IN SubSeq(ids, skip + 1, IF to > Len(ids) THEN Len(ids) ELSE to)

\* return a list of ids
IdsRet(ids) == [kind |-> "ids", attr |-> "", field |-> "", ids |-> ids]

get_coingecko_coin_ids(c) ==
    /\ calls < MaxCalls
    /\ \E skip \in {0, 1, 3}, limit \in {NoneV, IntV(0), IntV(1)}, from_gecko_api \in BOOLEAN :
          LET Run(net) == IF from_gecko_api THEN GetCoingeckoCoinIds(Start(c, net, NoOrder))
                          ELSE Start(c, net, NoOrder)
          IN \E net \in NetChoices(Run(NoFailure)) :
                Finish(c, "get_coingecko_coin_ids",
                       <<IntV(skip), limit, BoolV(from_gecko_api)>>, Run(net),
                       IdsRet(Slice(IF from_gecko_api THEN ApiIds ELSE FileIds, skip, limit)))

\* --------------------------------------------------------------- upstream
\* the API gets one more chain, protocol, bridge, stablecoin and pool
UpstreamChange ==
    /\ ver < MaxVer
    /\ ver' = ver + 1
    /\ UNCHANGED <<cache, fetched, last, calls, session, created, tx, th, resolverVars>>

\* ---------------------------------------------------------- specification
IdleResolver ==
    /\ rAttr = ""
    /\ rListing = NoListing
    /\ rRaw = NoneV
    /\ rSite = ""
    /\ rOut = Return(NoneV)

\* no _get call is in progress
NoExchange ==
    [pc |-> "idle", op |-> "", section |-> "", endpoint |-> "", args |-> <<>>, params |-> <<>>,
     coins |-> NoneV, sent |-> <<>>, attempts |-> 0, retry |-> 0,
     response |-> [status |-> 0, json |-> FALSE, text |-> ""], out |-> Return(NoneV)]
IdleRequest == tx = NoExchange

\* no thread is reading a cached property
Threads == {1, 2}
NoThread == [pc |-> "start", fetches |-> 0, ver |-> 0, val |-> NoListing, err |-> NoErr]
NoThreads(attr, locked) ==
    [attr |-> attr, locked |-> locked, holder |-> 0, t |-> [i \in Threads |-> NoThread]]
IdleThreads == th = NoThreads("", FALSE)

\* freshly constructed clients: no cached_property has been computed, and
\* __init__ stored a session of its own on each (the n-th client constructed
\* holds the n-th session created)
FreshClients ==
    /\ cache = [c \in Clients |-> [a \in Attrs |-> NoListing]]
    /\ fetched = [c \in Clients |-> [a \in Attrs |-> 0]]
    /\ ver = 1
    /\ last = NoCall
    /\ calls = 0
    /\ session = [c \in Clients |-> SessionOf(c)]
    /\ created = Cardinality(Clients)

Init == FreshClients /\ IdleResolver /\ IdleRequest /\ IdleThreads

\* every public method of a client
PublicCall(c) ==
    \/ ListAccessor(c)
    \/ PlainEndpoint(c)
    \/ MemberEndpoint(c)
    \/ get_stablecoin_historical_market_cap(c)
    \/ get_stablecoins_historical_martket_cap_in_chain(c)
    \/ get_stablecoins_historical_market_cap_and_chain_distribution(c)
    \/ get_pool_historical_apy_and_tvl(c)
    \/ get_bridge(c)
    \/ get_bridge_volume(c)
    \/ get_bridge_day_stats(c)
    \/ get_bridge_transactions(c)
    \/ get_current_prices_of_tokens_by_contract_address(c)
    \/ get_historical_prices_of_tokens_by_contract_address(c)
    \/ get_percentage_change_in_coin_price(c)
    \/ get_token_prices_candle(c)
    \/ get_earliest_timestamp_price_record_for_coins(c)
    \/ get_coingecko_coin_ids(c)

\* one client instance
Next == UpstreamChange \/ PublicCall("c1")

Spec == Init /\ [][Next]_vars

\* ================================================== the resolvers on their own
\* The resolvers are pure functions of the caller's identifier and the
\* listing: this specification draws both and runs one resolver.

\* strings of at most n characters of alphabet
Strs(alphabet, n) == UNION {[1..k -> alphabet] : k \in 0..n}

\* sequences without repetition of at most n elements of set
Distinct(set, n) ==
    {q \in UNION {[1..k -> set] : k \in 0..n} : \A i, j \in DOMAIN q : q[i] = q[j] => i = j}

\* display names of the entries of a drawn dict listing
DisplayNames == Strs({"a", "A"}, MaxNameLen) \ {<<>>}
\* members of a drawn list listing: the cached properties store lowercased
\* names and slugs
MemberNames == {StrV(n) : n \in Strs({"a", "b"}, MaxNameLen) \ {<<>>}}

\* the key of the i-th entry: an int (bridges, stablecoins) or a pool id
KeyOf(attr, i) == IF attr = "_pools" THEN StrV(PoolId(i)) ELSE IntV(i)

DictAttrs == {"_bridges", "_stablecoins", "_pools"}
ListAttrs == {site.attr : site \in MemberSites}

\* the listings attr may hold: dicts of at most MaxKey entries in any
\* insertion order, lists of at most MaxKey members, and the empty listing
ListingsOf(attr) ==
    IF attr \in DictAttrs
    THEN UNION {{DictOf([i \in 1..Len(ks) |-> [k |-> KeyOf(attr, ks[i]), v |-> ns[i]]]) :
                    ns \in [1..Len(ks) -> DisplayNames]} :
                ks \in Distinct(1..MaxKey, MaxKey)}
    ELSE {ListOf(q) : q \in Distinct(MemberNames, MaxKey)}

\* digit strings: the keys, a number below and one above them, also zero-padded
DigitInputs == UNION {{StrV(IntToStr(n)), StrV(<<"0">> \o IntToStr(n))} : n \in 0..(MaxKey + 1)}
TextInputs == {StrV(t) : t \in Strs({"a", "A", "b"}, MaxLen)}

\* the identifiers a caller may pass for attr
InputsOf(attr) ==
    CASE attr \in {"_bridges", "_stablecoins"} ->
            TextInputs \cup DigitInputs \cup {IntV(n) : n \in 0..(MaxKey + 1)} \cup {NoneV}
      [] attr = "_pools" -> TextInputs \cup {StrV(PoolId(i)) : i \in 1..(MaxKey + 1)}
      [] OTHER -> TextInputs

InitResolve ==
    /\ FreshClients
    /\ IdleRequest
    /\ IdleThreads
    /\ rAttr \in DictAttrs \cup ListAttrs
    /\ rListing \in ListingsOf(rAttr)
    /\ rRaw \in InputsOf(rAttr)
    /\ rSite = ""
    /\ rOut = Return(NoneV)

\* get_bridge_id(rRaw, rListing)
RunBridgeId ==
    /\ rSite = ""
    /\ rAttr = "_bridges"
    /\ rSite' = "get_bridge_id"
    /\ rOut' = get_bridge_id(rRaw, rListing)
    /\ UNCHANGED <<rAttr, rListing, rRaw, clientVars, tx, th>>

\* get_stablecoin_id(rRaw, rListing)
RunStablecoinId ==
    /\ rSite = ""
    /\ rAttr = "_stablecoins"
    /\ rSite' = "get_stablecoin_id"
    /\ rOut' = get_stablecoin_id(rRaw, rListing)
    /\ UNCHANGED <<rAttr, rListing, rRaw, clientVars, tx, th>>

\* the pool resolution of get_pool_historical_apy_and_tvl
RunResolvePool ==
    /\ rSite = ""
    /\ rAttr = "_pools"
    /\ rSite' = "get_pool_historical_apy_and_tvl"
    /\ rOut' = ResolvePool(rRaw, rListing)
    /\ UNCHANGED <<rAttr, rListing, rRaw, clientVars, tx, th>>

\* what a method does with the outcome of its membership check: raise, or
\* go on with the argument as given
Checked(err, raw) == IF err.exc # "none" THEN Raise(err) ELSE Return(raw)

\* the membership check of a method that validates rRaw against rListing
RunCheckMember ==
    /\ rSite = ""
    /\ \E site \in MemberSites :
          /\ site.attr = rAttr
          /\ rSite' = site.method
          /\ rOut' = Checked(CheckMember(site.method, rRaw, rListing), rRaw)
    /\ UNCHANGED <<rAttr, rListing, rRaw, clientVars, tx, th>>

NextResolve == RunBridgeId \/ RunStablecoinId \/ RunResolvePool \/ RunCheckMember

SpecResolve == InitResolve /\ [][NextResolve]_vars

\* ======================================================= one request, step by step
\* One call of _get, from the URL it builds to what it returns or raises,
\* with the attempts the session's retry adapter makes; and one call of
\* _handle_response or of prepare_coins_for_request on its own.

\* get_retry_session(retries=5): the default retry budget
DefaultRetries == 5

get_retry_session_unlimited(retries) ==
    [total |-> retries + MaxAttempts, status_forcelist |-> {500, 502, 503, 504, 406}]

\* get_retry_session: Retry(total=retries, ..., status_forcelist=[...])
\* mounted on the session
get_retry_session(retries) ==
    [total |-> retries, status_forcelist |-> {500, 502, 503, 504, 406}]

\* the section, endpoint, path segments and query parameters a caller of
\* _get passes
SectionInputs == Sections \cup {"invalid-section"}
EndpointInputs == {"protocols", "v2"}
Segments == {LitV("chains"), IntV(1), IntV(0), StrV(<<>>), NoneV}
ArgsInputs == UNION {[1..k -> Segments] : k \in 0..MaxLen}
ParamsInputs ==
    {<<Param("a", IntV(1)), Param("b", NoneV), Param("c", BoolV(FALSE))>>,
     <<Param("id", IntV(0)), Param("includeChains", BoolV(TRUE))>>,
     <<Param("id", NoneV)>>}
GetInputs ==
    {[section |-> sec, endpoint |-> e, args |-> a, params |-> <<>>] :
        sec \in SectionInputs, e \in EndpointInputs, a \in ArgsInputs}
    \cup {[section |-> "tvl", endpoint |-> e, args |-> <<>>, params |-> q] :
            e \in EndpointInputs, q \in ParamsInputs}

\* what the upstream may answer to one attempt
Statuses == {200, 304, 404, 500, 503}
Responses ==
    {[status |-> n, json |-> TRUE, text |-> "{}"] : n \in Statuses}
    \cup {[status |-> n, json |-> FALSE, text |-> "not json"] : n \in Statuses}

\* _get up to self.session.get: the arguments of session.get are evaluated
\* first, so an exception of _build_endpoint_url leaves nothing sent
Get ==
    /\ tx.pc = "idle"
    /\ \E in \in GetInputs :
          tx' = IF ~ResolveApiUrl(in.section).ok
                THEN [tx EXCEPT !.pc = "done", !.op = "_get", !.section = in.section,
                                !.endpoint = in.endpoint, !.args = in.args,
                                !.params = in.params,
                                !.out = Raise(ResolveApiUrl(in.section).err)]
                ELSE [tx EXCEPT !.pc = "sending", !.op = "_get", !.section = in.section,
                                !.endpoint = in.endpoint, !.args = in.args,
                                !.params = in.params,
                                !.retry = get_retry_session(DefaultRetries).total,
                                !.sent = <<SessionGet(SessionOf("c1"),
                                                      Request(in.section, in.endpoint,
                                                              in.args, in.params))>>]
    /\ UNCHANGED <<clientVars, resolverVars, th>>

\* one attempt of the adapter: the upstream answers; a status of
\* status_forcelist uses up one retry and is tried again until Retry is
\* exhausted (total below 0), which session.get raises as RetryError
Attempt ==
    /\ tx.pc = "sending"
    /\ tx.attempts < MaxAttempts
    /\ \E response \in Responses :
          tx' = IF response.status \notin get_retry_session(DefaultRetries).status_forcelist
                THEN [tx EXCEPT !.pc = "handling", !.attempts = @ + 1, !.response = response]
                ELSE IF tx.retry - 1 < 0
                THEN [tx EXCEPT !.pc = "done", !.attempts = @ + 1, !.response = response,
                                !.retry = @ - 1,
                                !.out = Raise(Err("RetryError", "too many {status} error responses",
                                                  "", IntV(response.status), FALSE, NoListing))]
                ELSE [tx EXCEPT !.attempts = @ + 1, !.response = response, !.retry = @ - 1]
    /\ UNCHANGED <<clientVars, resolverVars, th>>

\* a call of _handle_response on a response, as the tests make it
CallHandleResponse ==
    /\ tx.pc = "idle"
    /\ \E response \in Responses :
          tx' = [tx EXCEPT !.pc = "handling", !.op = "_handle_response", !.response = response]
    /\ UNCHANGED <<clientVars, resolverVars, th>>

\* _handle_response(r): raise, or return the decoded data
Handle ==
    /\ tx.pc = "handling"
    /\ tx' = [tx EXCEPT !.pc = "done",
                        !.out = IF HandleResponse(tx.response).exc # "none"
                                THEN Raise(HandleResponse(tx.response))
                                ELSE Return(JsonV(tx.response.text))]
    /\ UNCHANGED <<clientVars, resolverVars, th>>

\* the coins a caller passes: a string (also one holding several tokens), a
\* Coin, a mapping with and without its keys, a list of at most MaxLen of
\* these, and values of other types
Tokens == {StrV(<<"e", ":", "x">>), CoinV(<<"e">>, <<"x">>),
           DictV([chain |-> <<"b">>, address |-> <<"y">>]), DictV([chain |-> <<"b">>]),
           IntV(5)}
CoinsDrawn ==
    Tokens \cup {StrV(<<"e", ":", "x", ",", "b", ":", "y">>), NoneV,
                 TupleV(<<StrV(<<"e", ":", "x">>)>>)}
    \cup {ListV(q) : q \in UNION {[1..k -> Tokens] : k \in 0..MaxLen}}

\* a call of prepare_coins_for_request
PrepareCoinsForRequest ==
    /\ tx.pc = "idle"
    /\ \E coins \in CoinsDrawn :
          tx' = [tx EXCEPT !.pc = "done", !.op = "prepare_coins_for_request", !.coins = coins,
                           !.out = prepare_coins_for_request(coins)]
    /\ UNCHANGED <<clientVars, resolverVars, th>>

NextRequest == Get \/ Attempt \/ CallHandleResponse \/ Handle \/ PrepareCoinsForRequest

SpecRequest == Init /\ [][NextRequest]_vars

\* ================================================ listings on a failing network
\* One client whose list_* methods and chain / protocol methods run on a
\* network that fails a request in any of the ways of FaultResponses.
FaultyListAccessor == ListAccess("c1", FaultResponses)
FaultyMemberEndpoint == MemberAccess("c1", FaultResponses)

NextFaults == UpstreamChange \/ FaultyListAccessor \/ FaultyMemberEndpoint

SpecFaults == Init /\ [][NextFaults]_vars

\* ============================================ two threads, one cached property
\* Two threads read the same cached property of one fresh client, each step
\* of functools.cached_property.__get__ on its own: look the attribute up in
\* the instance's __dict__, on a miss run the property body (the fetch) and
\* store the value. The interpreter decides whether a lock is held from the
\* miss to the store (Python 3.8 to 3.11: a lock, and a second lookup under
\* it; from 3.12: none); both builds are drawn.
InitThreads ==
    /\ FreshClients
    /\ IdleResolver
    /\ IdleRequest
    /\ th \in {NoThreads(attr, locked) : attr \in Attrs, locked \in BOOLEAN}

\* the orders list(set) may produce in the body of th.attr
ThreadOrders ==
    {[chains |-> oc, protocols |-> op] :
        oc \in IF th.attr = "_chains" THEN Orderings(ChainSet(ver)) ELSE {<<>>},
        op \in IF th.attr = "_protocols" THEN Orderings(ProtocolSet(ver)) ELSE {<<>>}}

\* the thread returns val, the value it found stored
Hit(i, val) == [th EXCEPT !.t[i].pc = "done", !.t[i].val = val]

\* val = cache.get(self.attrname, _NOT_FOUND)
Lookup(i) ==
    /\ th.t[i].pc = "start"
    /\ th' = IF IsSet(cache["c1"][th.attr]) THEN Hit(i, cache["c1"][th.attr])
             ELSE [th EXCEPT !.t[i].pc = "miss"]
    /\ UNCHANGED <<clientVars, tx, resolverVars>>

\* on a miss: with self.lock, and the second lookup under it (the locking
\* build); straight to the body (the build without a lock)
Enter(i) ==
    /\ th.t[i].pc = "miss"
    /\ th.locked => th.holder = 0
    /\ th' = IF th.locked /\ IsSet(cache["c1"][th.attr]) THEN Hit(i, cache["c1"][th.attr])
             ELSE [th EXCEPT !.t[i].pc = "body", !.holder = IF th.locked THEN i ELSE 0]
    /\ UNCHANGED <<clientVars, tx, resolverVars>>

\* val = self.func(instance): the property body fetches and computes the
\* listing, or raises (the lock is released on the way out)
Body(i) ==
    /\ th.t[i].pc = "body"
    /\ \E order \in ThreadOrders :
          LET Run(net) == Compute(DoGet(Start("c1", net, order), DefiningRequest(th.attr)), th.attr)
          IN \E net \in NetChoices(Run(NoFailure)) :
                /\ th' = IF Raised(Run(net))
                         THEN [th EXCEPT !.t[i].pc = "done", !.t[i].fetches = @ + 1,
                                         !.t[i].ver = ver, !.t[i].err = Run(net).exc,
                                         !.holder = 0]
                         ELSE [th EXCEPT !.t[i].pc = "computed", !.t[i].fetches = @ + 1,
                                         !.t[i].ver = ver, !.t[i].val = Run(net).cache[th.attr]]
                /\ fetched' = [fetched EXCEPT !["c1"][th.attr] = @ + AnsweredFetches(Run(net), th.attr)]
    /\ UNCHANGED <<cache, ver, last, calls, session, created, tx, resolverVars>>

StoreValue_merge(old, val) ==
    IF IsSet(old) THEN [val EXCEPT !.items = old.items \o val.items] ELSE val

\* cache[self.attrname] = val: one assignment to the instance's __dict__
StoreValue(old, val) == val

\* the store, and the return of val
Store(i) ==
    /\ th.t[i].pc = "computed"
    /\ cache' = [cache EXCEPT !["c1"][th.attr] = StoreValue(@, th.t[i].val)]
    /\ th' = [th EXCEPT !.t[i].pc = "done", !.holder = 0]
    /\ UNCHANGED <<fetched, ver, last, calls, session, created, tx, resolverVars>>

ThreadsDone == \A i \in Threads : th.t[i].pc = "done"

\* an access to the same category after both threads returned
LaterAccess ==
    /\ ThreadsDone
    /\ calls < MaxCalls
    /\ \E lm \in {m \in ListMethods : m.attr = th.attr} :
       \E order \in OrderChoices("c1", {lm.attr}) :
          LET Run(net) == Access(Start("c1", net, order), lm.attr)
          IN \E net \in NetChoices(Run(NoFailure)) :
                Finish("c1", lm.method, <<>>, Run(net), ListingRet(lm.attr))

NextThreads ==
    \/ \E i \in Threads : Lookup(i) \/ Enter(i) \/ Body(i) \/ Store(i)
    \/ UpstreamChange
    \/ LaterAccess

SpecThreads == InitThreads /\ [][NextThreads]_vars

\* ===================================================== two client instances
\* Two instances of the client in one process, each making public calls.
NextInstances == UpstreamChange \/ \E c \in Clients : PublicCall(c)

SpecInstances == Init /\ [][NextInstances]_vars

\* ==================================================================== claims
\* a call was made in this step
CallMade == calls' # calls

\* the requests of the last call that are the defining fetch of attr
FetchesOf(call, attr) == {i \in DOMAIN call.gets : call.gets[i].for = attr}
\* the requests of the last call to the method's own endpoint
EndpointGets(call) == {i \in DOMAIN call.gets : call.gets[i].for = ""}

\* C1: listing memoization. On every client instance the defining fetch of
\* a category has been answered exactly once if its listing is stored and
\* never otherwise, whatever accessors and validating methods ran since;
\* no call sends it twice.
C1_FetchedOnce ==
    \A c \in Clients, a \in Attrs :
        /\ fetched[c][a] = IF IsSet(cache[c][a]) THEN 1 ELSE 0
        /\ last.client = c => Cardinality(FetchesOf(last, a)) <= 1

\* a second call consulted the bridges listing that the first call stored:
\* it sent its endpoint request only
C1_Witness ==
    /\ calls = 2
    /\ last.method = "get_bridge"
    /\ last.err.exc = "none"
    /\ Len(last.gets) = 1
    /\ EndpointGets(last) = {1}
    /\ fetched["c1"]["_bridges"] = 1

\* C2: a stored listing is never invalidated or refreshed. No step (a call
\* of any method, successful or failing, or a change of the upstream data)
\* changes or removes a listing an instance has stored.
C2_NeverInvalidated ==
    [][\A c \in Clients, a \in Attrs : IsSet(cache[c][a]) => cache'[c][a] = cache[c][a]]_vars

\* list_bridges answered from the stored listing after the upstream data got
\* a second bridge: the caller still gets the one-entry listing
C2_Witness ==
    /\ calls = 2
    /\ last.method = "list_bridges"
    /\ last.gets = <<>>
    /\ last.ver = 2
    /\ last.ret.listing = cache["c1"]["_bridges"]
    /\ Len(last.ret.listing.items) = 1
    /\ Len(BuildListing("_bridges", ver, NoOrder).items) = 2

\* C3: listing caches are per instance. A call on one instance leaves every
\* listing and fetch count of the other instances as they were, and an
\* instance that comes to hold a listing has sent the defining fetch itself.
C3_PerInstance ==
    [][CallMade =>
         \A c \in Clients :
            IF last'.client # c
            THEN cache'[c] = cache[c] /\ fetched'[c] = fetched[c]
            ELSE \A a \in Attrs :
                    (~IsSet(cache[c][a]) /\ IsSet(cache'[c][a])) => FetchesOf(last', a) # {}]_vars

\* c1 stored the bridges listing first; c2 then fetched its own, from newer
\* upstream data, and the two instances hold different listings
C3_Witness ==
    /\ calls = 2
    /\ last.client = "c2"
    /\ FetchesOf(last, "_bridges") # {}
    /\ IsSet(cache["c1"]["_bridges"])
    /\ IsSet(cache["c2"]["_bridges"])
    /\ cache["c1"]["_bridges"] # cache["c2"]["_bridges"]

\* ------------------------------------------------- claims on the resolvers
IdResolvers == {"get_bridge_id", "get_stablecoin_id"}
MemberMethods == {site.method : site \in MemberSites}

\* the input is an integer or a string of digits only
NumericInput(raw) == raw.t = "int" \/ (raw.t = "str" /\ IsNumeric(raw.s))
\* the input is a string that is not digits only
NameInput(raw) == raw.t = "str" /\ ~IsNumeric(raw.s)

\* the entries of the listing whose display name is name ignoring case
SameNameIgnoringCase(listing, name) ==
    {i \in DOMAIN listing.items : StrLower(listing.items[i].v) = StrLower(name)}

ResolveAs(site, raw, listing) ==
    IF site = "get_bridge_id" THEN get_bridge_id(raw, listing) ELSE get_stablecoin_id(raw, listing)

\* C5: case-insensitive name resolution for bridges and stablecoins. For a
\* non-numeric string input the resolver returns a key exactly when some
\* display name equals the input ignoring case, the key returned is the key
\* of such an entry, and every input that differs from it only in letter
\* case resolves to the same key.
C5_CaseInsensitive ==
    (rSite \in IdResolvers /\ NameInput(rRaw)) =>
        /\ rOut.ok <=> SameNameIgnoringCase(rListing, rRaw.s) # {}
        /\ rOut.ok => \E i \in SameNameIgnoringCase(rListing, rRaw.s) :
                         rOut.val = rListing.items[i].k
        /\ \A other \in TextInputs :
              StrLower(other.s) = StrLower(rRaw.s) =>
                 /\ ResolveAs(rSite, other, rListing).ok = rOut.ok
                 /\ ResolveAs(rSite, other, rListing).val = rOut.val

\* "A" resolved against a listing that spells the name "a" in its first
\* entry and "A" in its second: the key of the first entry is returned
C5_Witness ==
    /\ rSite = "get_bridge_id"
    /\ rRaw = StrV(<<"A">>)
    /\ Len(rListing.items) = 2
    /\ rListing.items[1].v = <<"a">>
    /\ rListing.items[2].v = <<"A">>
    /\ rOut.ok
    /\ rOut.val = rListing.items[1].k

\* a resolver ran and raised
ResolutionFailed == rSite # "" /\ ~rOut.ok

\* the category the message of a failure of rSite is to name
CategoryOf(site) ==
    CASE site = "get_bridge_id" -> "bridge"
      [] site = "get_stablecoin_id" -> "stablecoin"
      [] site = "get_pool_historical_apy_and_tvl" -> "pool"
      [] OTHER -> SiteOf(site).label

\* the identifier a failing lookup was made with: the integer value on the
\* numeric path, the lowercased argument where the method lowercases before
\* the check, the input as given everywhere else
LookedUp(site, raw) ==
    IF site \in IdResolvers
    THEN IF NumericInput(raw) THEN IntV(PyInt(raw)) ELSE raw
    ELSE IF site \in MemberMethods /\ SiteOf(site).lowered
    THEN StrV(StrLower(raw.s))
    ELSE raw

\* C6 as stated: every resolution failure, in every category and on both
\* paths, raises an error whose message names the category, contains the
\* offending input (read here as the identifier that was looked up) and
\* contains the full listing of valid options.
C6_Original ==
    (ResolutionFailed /\ rRaw.t \in {"int", "str"}) =>
        /\ rOut.err.exc = "ValueError"
        /\ rOut.err.label = CategoryOf(rSite)
        /\ rOut.err.entity = LookedUp(rSite, rRaw)
        /\ rOut.err.listed
        /\ rOut.err.options = rListing

\* C6 as amended: every resolution failure for an integer or string input
\* raises a ValueError whose message names the category and the identifier
\* that was looked up (the integer value of the input on the numeric path,
\* its lowercased form in the methods that lowercase before checking, the
\* input as given otherwise); the message contains the full listing in
\* every category except pool, where it contains no listing.
C6_FailureMessage ==
    (ResolutionFailed /\ rRaw.t \in {"int", "str"}) =>
        /\ rOut.err.exc = "ValueError"
        /\ rOut.err.label = CategoryOf(rSite)
        /\ rOut.err.entity = LookedUp(rSite, rRaw)
        /\ IF rSite = "get_pool_historical_apy_and_tvl"
           THEN ~rOut.err.listed /\ rOut.err.options = NoListing
           ELSE rOut.err.listed /\ rOut.err.options = rListing

\* a pool symbol no entry has, against a listing that has entries: the
\* error names the pool and carries no listing
C6_Witness ==
    /\ rSite = "get_pool_historical_apy_and_tvl"
    /\ rRaw = StrV(<<"b">>)
    /\ Len(rListing.items) > 0
    /\ ~rOut.ok
    /\ rOut.err.entity = rRaw
    /\ ~rOut.err.listed

\* C7 as stated: with an empty listing, resolution fails for every input in
\* every category.
C7_EmptyListingFails ==
    (rSite # "" /\ rListing.items = <<>>) => ~rOut.ok

\* C8 as stated: every method that validates a chain or protocol against a
\* list listing accepts an input whose lowercased form is a member.
C8_LowercasedMembership ==
    (rSite \in MemberMethods /\ Contains(rListing, StrV(StrLower(rRaw.s)))) => rOut.ok

\* ------------------------------------------------- claims on failing calls
BridgeMethods == {"get_bridge", "get_bridge_volume", "get_bridge_day_stats", "get_bridge_transactions"}
StablecoinMethods == {"get_stablecoin_historical_market_cap",
                      "get_stablecoins_historical_martket_cap_in_chain",
                      "get_stablecoins_historical_market_cap_and_chain_distribution"}

\* the listings a method reads to check its identifier arguments
ConsultedBy(method) ==
    (IF method \in MemberMethods THEN {SiteOf(method).attr} ELSE {})
    \cup (IF method \in BridgeMethods THEN {"_bridges"} ELSE {})
    \cup (IF method \in StablecoinMethods THEN {"_stablecoins"} ELSE {})
    \cup (IF method = "get_pool_historical_apy_and_tvl" THEN {"_pools"} ELSE {})

\* C9: fail fast. A call that raises because an identifier argument fails
\* resolution or validation has sent no request to the method's own
\* endpoint; and if every listing the method reads was already stored on
\* the instance, the failing call has sent no request at all.
C9_FailFast ==
    [][(CallMade /\ last'.err.exc = "ValueError") =>
          /\ EndpointGets(last') = {}
          /\ (\A a \in ConsultedBy(last'.method) : IsSet(cache[last'.client][a]))
                => last'.gets = <<>>]_vars

\* get_bridge_transactions with an unknown bridge, after list_bridges stored
\* the listing: ValueError, nothing sent
C9_Witness ==
    /\ calls = 2
    /\ last.method = "get_bridge_transactions"
    /\ last.args[1] = StrV(Unknown)
    /\ last.err.exc = "ValueError"
    /\ last.gets = <<>>
    /\ IsSet(cache["c1"]["_bridges"])

\* the methods with an optional secondary identifier, its position among
\* the arguments, the listing it is resolved against, its query parameter
OptionalSites == {
    [method |-> "get_bridge_volume", pos |-> 2, attr |-> "_bridges", param |-> "id"],
    [method |-> "get_bridge_day_stats", pos |-> 2, attr |-> "_bridges", param |-> "id"],
    [method |-> "get_stablecoin_historical_market_cap", pos |-> 1, attr |-> "_stablecoins",
     param |-> "stablecoin"],
    [method |-> "get_stablecoins_historical_martket_cap_in_chain", pos |-> 2,
     attr |-> "_stablecoins", param |-> "stablecoin"]}

HasOptional(call) == call.method \in {o.method : o \in OptionalSites}
OptionalSite(call) == CHOOSE o \in OptionalSites : o.method = call.method
OptionalArg(call) == call.args[OptionalSite(call).pos]

\* the optional identifier was given and no entry of the stored listing
\* resolves it
OptionalFails(call) ==
    /\ HasOptional(call)
    /\ Truthy(OptionalArg(call))
    /\ IsSet(cache[call.client][OptionalSite(call).attr])
    /\ ~(IF OptionalSite(call).attr = "_bridges"
         THEN get_bridge_id(OptionalArg(call), cache[call.client]["_bridges"])
         ELSE get_stablecoin_id(OptionalArg(call), cache[call.client]["_stablecoins"])).ok

\* the required chain of the call, if it has one, passed its validation and
\* the network failed no request
PrimaryFine(call) ==
    /\ call.err.exc # "HTTPError"
    /\ call.method \in MemberMethods =>
          /\ IsSet(cache[call.client][SiteOf(call.method).attr])
          /\ CheckMember(call.method, call.args[1],
                         cache[call.client][SiteOf(call.method).attr]).exc = "none"

\* the endpoint request of the call carries the optional parameter as None
SentAsNone(call) ==
    \E i \in EndpointGets(call) :
       \E j \in DOMAIN call.gets[i].params :
          call.gets[i].params[j] = Param(OptionalSite(call).param, NoneV)

ReadBy(method) ==
    ConsultedBy(method) \cup {lm.attr : lm \in {m \in ListMethods : m.method = method}}

\* the listings the call made in this step read that were not stored before
ReadUnstored == {a \in ReadBy(last'.method) : ~IsSet(cache[last'.client][a])}

\* C11 as stated: every public operation issues zero or one network call,
\* whatever the state of the listing caches (a fresh client included).
C11_Original == Len(last.gets) <= 1

\* C11 as amended: a public operation issues at most one network call to its
\* own endpoint, and besides it at most one defining fetch for each listing
\* it reads that was not stored on the instance before the call, none for a
\* listing that was stored; so zero or one call when every listing it reads
\* is stored.
C11_CallsPerOperation ==
    [][CallMade =>
          /\ Cardinality(EndpointGets(last')) <= 1
          /\ \A a \in Attrs :
                Cardinality(FetchesOf(last', a)) <= IF a \in ReadUnstored THEN 1 ELSE 0
          /\ Len(last'.gets) <= 1 + Cardinality(ReadUnstored)]_vars

\* get_bridge_volume with a bridge on a fresh client: the dex chains fetch,
\* the bridges fetch, then the bridgevolume request
C11_Witness ==
    /\ calls = 1
    /\ last.method = "get_bridge_volume"
    /\ last.err.exc = "none"
    /\ Len(last.gets) = 3
    /\ FetchesOf(last, "_dex_chains") = {1}
    /\ FetchesOf(last, "_bridges") = {2}
    /\ EndpointGets(last) = {3}

\* ------------------------------------------------- claims about one request
\* the base URL of each API section, as the tests of _resolve_api_url list them
ExpectedBase(section) ==
    CASE section = "coins" -> "https://coins.llama.fi"
      [] section = "stablecoins" -> "https://stablecoins.llama.fi"
      [] section = "yields" -> "https://yields.llama.fi"
      [] section = "bridges" -> "https://bridges.llama.fi"
      [] section \in {"tvl", "volumes", "fees"} -> "https://api.llama.fi"

SevenSections == {"tvl", "coins", "stablecoins", "yields", "bridges", "volumes", "fees"}

\* a call of _get that built its URL and handed it to the session
GetSent == tx.op = "_get" /\ tx.sent # <<>>

\* the string form of a path segment
StringForm(v) == IF v.t = "int" THEN StrV(IntToStr(v.n)) ELSE v

\* a path segment that is not empty: neither None, nor "", nor 0 or False
NonEmpty(v) == v # NoneV /\ v # StrV(<<>>) /\ v # IntV(0) /\ v # BoolV(FALSE)

\* C12: URL construction. For each of the seven sections, every endpoint
\* and every sequence of n >= 0 non-empty path segments, the URL is the
\* section's base URL, "/", the endpoint, then "/" and the string form of
\* each segment in the order given; with n = 0 it is exactly base/endpoint.
C12_UrlConstruction ==
    (GetSent /\ \A i \in DOMAIN tx.args : NonEmpty(tx.args[i])) =>
        LET url == tx.sent[1].url
        IN /\ Len(url) = 3 + 2 * Len(tx.args)
           /\ url[1] = LitV(ExpectedBase(tx.section))
           /\ url[2] = LitV("/")
           /\ url[3] = LitV(tx.endpoint)
           /\ \A i \in DOMAIN tx.args :
                 /\ url[2 + 2 * i] = LitV("/")
                 /\ url[3 + 2 * i] = StringForm(tx.args[i])

\* _get("coins", "v2", "chains", 1) built https://coins.llama.fi/v2/chains/1
C12_Witness ==
    /\ GetSent
    /\ tx.section = "coins"
    /\ tx.endpoint = "v2"
    /\ tx.args = <<LitV("chains"), IntV(1)>>
    /\ tx.sent[1].url = <<LitV("https://coins.llama.fi"), LitV("/"), LitV("v2"), LitV("/"),
                          LitV("chains"), LitV("/"), StrV(<<"1">>)>>

\* C13: a section that is not one of the seven fails with ValueError and no
\* request is issued; each of the seven sections resolves to its one fixed
\* base URL.
C13_SectionResolution ==
    tx.op = "_get" =>
        IF tx.section \in SevenSections
        THEN /\ tx.sent # <<>>
             /\ tx.sent[1].url[1] = LitV(ExpectedBase(tx.section))
        ELSE /\ tx.pc = "done"
             /\ ~tx.out.ok
             /\ tx.out.err.exc = "ValueError"
             /\ tx.out.err.tmpl = "Invalid section: {section}"
             /\ tx.sent = <<>>
             /\ tx.attempts = 0

\* _get("invalid-section", ...) raised ValueError and sent nothing
C13_Witness ==
    /\ tx.op = "_get"
    /\ tx.section = "invalid-section"
    /\ tx.pc = "done"
    /\ tx.out.err.exc = "ValueError"
    /\ tx.sent = <<>>

\* the positions of the query parameters that are not None
NotNone(params) == {i \in DOMAIN params : params[i].val # NoneV}

\* C14: query-string assembly. The request sent holds exactly the named
\* parameters whose value is not None, in the order given; a value of False
\* or 0 is sent, a value of None is left out entirely.
C14_QueryString ==
    GetSent =>
        LET q == tx.sent[1].query
        IN /\ Len(q) = Cardinality(NotNone(tx.params))
           /\ \A i \in NotNone(tx.params) : \E j \in DOMAIN q : q[j].name = tx.params[i].name
           /\ \A j \in DOMAIN q : \E i \in NotNone(tx.params) : q[j].name = tx.params[i].name
           /\ \A i \in DOMAIN tx.params :
                 /\ tx.params[i].val = BoolV(FALSE) =>
                        \E j \in DOMAIN q : q[j] = Param(tx.params[i].name, LitV("False"))
                 /\ tx.params[i].val = IntV(0) =>
                        \E j \in DOMAIN q : q[j] = Param(tx.params[i].name, StrV(<<"0">>))

\* _get(..., a=1, b=None, c=False) sent a and c, not b
C14_Witness ==
    /\ GetSent
    /\ tx.params = <<Param("a", IntV(1)), Param("b", NoneV), Param("c", BoolV(FALSE))>>
    /\ tx.sent[1].query = <<Param("a", StrV(<<"1">>)), Param("c", LitV("False"))>>

\* _handle_response returned or raised on the response in tx.response
Handled ==
    /\ tx.pc = "done"
    /\ \/ tx.op = "_handle_response"
       \/ /\ tx.op = "_get"
          /\ tx.attempts > 0
          /\ tx.response.status \notin {500, 502, 503, 504, 406}

RaisedAs(exc) == ~tx.out.ok /\ tx.out.val = NoneV /\ tx.out.err.exc = exc

C16_DecodeError ==
    (Handled /\ tx.response.status \in 200..299 /\ ~tx.response.json) =>
        /\ RaisedAs("InvalidResponseDataException")
        /\ tx.out.err.tmpl = "Invalid data: {response.text}"
        /\ tx.out.err.entity = LitV(tx.response.text)

\* _get got a 200 with the body "not json"
C16_Witness ==
    /\ Handled
    /\ tx.op = "_get"
    /\ tx.response = [status |-> 200, json |-> FALSE, text |-> "not json"]
    /\ RaisedAs("InvalidResponseDataException")
    /\ tx.out.err.entity = LitV("not json")

\* a Coin or a mapping holding chain and address
IsPair(v) == v.t = "coin" \/ (v.t = "dict" /\ DOMAIN v.d = {"chain", "address"})

\* the token of one coin: the string itself, or chain:address
TokenOf(v) ==
    CASE v.t = "coin" -> v.chain \o <<":">> \o v.address
      [] v.t = "dict" -> v.d["chain"] \o <<":">> \o v.d["address"]
      [] OTHER -> v.s

\* the tokens of q, in order, with a comma between neighbours
RECURSIVE Serialized(_)
Serialized(q) ==
    IF Len(q) = 0 THEN <<>>
    ELSE IF Len(q) = 1 THEN TokenOf(q[1])
    ELSE Serialized(SubSeq(q, 1, Len(q) - 1)) \o <<",">> \o TokenOf(q[Len(q)])

PreparedCoins == tx.pc = "done" /\ tx.op = "prepare_coins_for_request"

C20_BoundedRetry ==
    tx.op = "_get" =>
        /\ tx.attempts <= DefaultRetries + 1
        /\ (tx.attempts > 0 /\ tx.response.status \in {500, 502, 503, 504, 406}) =>
              IF tx.attempts = DefaultRetries + 1
              THEN tx.pc = "done" /\ RaisedAs("RetryError")
              ELSE tx.pc = "sending" /\ tx.out = Return(NoneV)

\* six attempts were answered 500 or 503: RetryError
C20_Witness ==
    /\ tx.op = "_get"
    /\ tx.pc = "done"
    /\ tx.attempts = 6
    /\ tx.response.status = 500
    /\ RaisedAs("RetryError")

\* ------------------------------------------ claims about the public methods
\* C17 as stated: every endpoint method returns exactly the decoded JSON of
\* the response it received; nothing is extracted, reshaped or dropped.
C17_Original == last.ret.kind = "json" => last.ret.field = ""

\* the key of the decoded response whose value a method returns ("" for the
\* methods that return the decoded response itself)
ExtractedKey(method) ==
    CASE method = "get_stablecoins" -> "peggedAssets"
      [] method \in {"get_pools", "get_pool_historical_apy_and_tvl"} -> "data"
      [] method = "get_bridges" -> "bridges"
      [] OTHER -> ""

\* C17 as amended: every endpoint method returns the decoded JSON of the
\* response unchanged, except get_stablecoins, get_pools,
\* get_pool_historical_apy_and_tvl and get_bridges, which return the value
\* under one top-level key of it (peggedAssets, data, data, bridges).
C17_ReturnedJson ==
    (last.method # "" /\ last.err.exc = "none" /\ last.method \notin {m.method : m \in ListMethods}
        /\ last.method # "get_coingecko_coin_ids") =>
        /\ last.ret.kind = "json"
        /\ last.ret.field = ExtractedKey(last.method)

\* get_bridges returned the value under "bridges" of the decoded response
C17_Witness ==
    /\ last.method = "get_bridges"
    /\ last.err.exc = "none"
    /\ Len(last.gets) = 1
    /\ last.ret.kind = "json"
    /\ last.ret.field = "bridges"

\* C19 as stated: the session a client created at construction is the one
\* its session property returns after any sequence of operations, every
\* request of every method goes through it, and no method creates another
\* session.
C19_SingleSession ==
    /\ \A c \in Clients : session[c] = SessionOf(c)
    /\ \A i \in DOMAIN last.gets : last.gets[i].via = session[last.client]
    /\ created = Cardinality(Clients)

\* the pools listing a call of the method is checked against: the one stored
\* on the instance, or the one the upstream data of the call defines
PoolsListing(call) ==
    IF IsSet(cache[call.client]["_pools"]) THEN cache[call.client]["_pools"]
    ELSE BuildListing("_pools", call.ver, NoOrder)

\* the pool is a key of the listing, or the symbol of an entry ignoring case
KnownPool(pool, pools) == Contains(pools, pool) \/ SameNameIgnoringCase(pools, pool.s) # {}

\* C22 as stated: get_pool_historical_apy_and_tvl raises ValueError, without
\* issuing the chart request, whenever the pool is neither a pool id of the
\* pools listing nor, ignoring case, the symbol of an entry, also when the
\* input has the form of a UUID.
C22_UnknownPoolRaises ==
    (/\ last.method = "get_pool_historical_apy_and_tvl"
     /\ last.err.exc # "HTTPError"
     /\ ~KnownPool(last.args[1], PoolsListing(last)))
        => (last.err.exc = "ValueError" /\ EndpointGets(last) = {})

\* the ids of the source get_coingecko_coin_ids was told to read
SourceIds(call) == IF call.args[3] = BoolV(TRUE) THEN ApiIds ELSE FileIds

\* C23 as stated: get_coingecko_coin_ids reads the ids from exactly one
\* source (one request to the live API when from_gecko_api is true, no
\* request otherwise) and returns the contiguous sub-list starting at index
\* skip; with a limit that is not None the result has at most limit entries,
\* with limit None it holds every id from skip to the end.
C23_SkipLimit ==
    (last.method = "get_coingecko_coin_ids" /\ last.err.exc = "none") =>
        LET ids == SourceIds(last)
            got == last.ret.listing.items
            skip == last.args[1].n
            limit == last.args[2]
        IN /\ Len(last.gets) = IF last.args[3] = BoolV(TRUE) THEN 1 ELSE 0
           /\ \A i \in DOMAIN last.gets : last.gets[i].url = CoingeckoRequest.url
           /\ skip + Len(got) <= IF skip > Len(ids) THEN skip ELSE Len(ids)
           /\ \A i \in DOMAIN got : got[i].k = ids[skip + i]
           /\ limit # NoneV => Len(got) <= limit.n
           /\ limit = NoneV => skip + Len(got) = IF skip > Len(ids) THEN skip ELSE Len(ids)

\* where each validating method puts an identifier it has checked against a
\* listing: the listing, the position of the path segment (0: not in the
\* path) and the name of the query parameter ("": not in the query)
WireSites == {
    [method |-> "get_protocol", attr |-> "_protocols", seg |-> 1, param |-> ""],
    [method |-> "get_historical_tvl_for_chain", attr |-> "_chains", seg |-> 2, param |-> ""],
    [method |-> "get_current_tvl_for_protocol", attr |-> "_protocols", seg |-> 1, param |-> ""],
    [method |-> "get_stablecoin_historical_market_cap", attr |-> "_stablecoins", seg |-> 0,
     param |-> "stablecoin"],
    [method |-> "get_stablecoins_historical_martket_cap_in_chain", attr |-> "_chains", seg |-> 1,
     param |-> ""],
    [method |-> "get_stablecoins_historical_martket_cap_in_chain", attr |-> "_stablecoins", seg |-> 0,
     param |-> "stablecoin"],
    [method |-> "get_stablecoins_historical_market_cap_and_chain_distribution",
     attr |-> "_stablecoins", seg |-> 1, param |-> ""],
    [method |-> "get_pool_historical_apy_and_tvl", attr |-> "_pools", seg |-> 1, param |-> ""],
    [method |-> "get_bridge", attr |-> "_bridges", seg |-> 1, param |-> ""],
    [method |-> "get_bridge_volume", attr |-> "_dex_chains", seg |-> 1, param |-> ""],
    [method |-> "get_bridge_volume", attr |-> "_bridges", seg |-> 0, param |-> "id"],
    [method |-> "get_bridge_day_stats", attr |-> "_dex_chains", seg |-> 2, param |-> ""],
    [method |-> "get_bridge_day_stats", attr |-> "_bridges", seg |-> 0, param |-> "id"],
    [method |-> "get_bridge_transactions", attr |-> "_bridges", seg |-> 1, param |-> ""],
    [method |-> "get_bridge_transactions", attr |-> "_dex_chains", seg |-> 0, param |-> "sourcechain"],
    [method |-> "get_dexes_volume_overview_for_chain", attr |-> "_dex_chains", seg |-> 2, param |-> ""],
    [method |-> "get_summary_of_dex_volume_with_historical_data", attr |-> "_dex_protocols", seg |-> 2,
     param |-> ""],
    [method |-> "get_overview_dexes_options_for_chain", attr |-> "_dex_options_chains", seg |-> 2,
     param |-> ""],
    [method |-> "get_summary_of_options_volume_with_historical_data_for_protocol",
     attr |-> "_dex_options_protocols", seg |-> 2, param |-> ""],
    [method |-> "get_fees_and_revenues_for_all_protocols_for_chain", attr |-> "_fees_chains", seg |-> 2,
     param |-> ""],
    [method |-> "get_summary_of_protocols_fees_and_revenue", attr |-> "_fees_protocols", seg |-> 2,
     param |-> ""],
    [method |-> "get_the_closest_block_to_timestamp", attr |-> "_chains", seg |-> 1, param |-> ""]}

\* the elements of a listing in the form they take in a URL or query string
WireForms(listing) == {PyStr(listing.items[i].k) : i \in DOMAIN listing.items}

\* the identifiers the request carries at the place the site names
OnTheWire(request, site) ==
    (IF site.seg > 0 THEN {request.url[3 + 2 * site.seg]} ELSE {})
    \cup {request.query[j].val : j \in {i \in DOMAIN request.query : request.query[i].name = site.param}}

\* C24 as stated: canonical identifier on the wire. In every call that
\* validated its identifier against a listing and sent its request, the
\* identifier in the request path, or in the id / stablecoin / sourcechain
\* query parameter, is an element of that listing (a key of the bridges,
\* stablecoins or pools listing, a member of a chain or protocol listing).
C24_CanonicalOnWire ==
    last.err.exc = "none" =>
        \A site \in {w \in WireSites : w.method = last.method} :
        \A i \in EndpointGets(last) :
            OnTheWire(last.gets[i], site) \subseteq WireForms(cache[last.client][site.attr])

\* "/" and the string form of each segment of q, in order
RECURSIVE Slashed(_)
Slashed(q) ==
    IF Len(q) = 0 THEN <<>>
    ELSE <<LitV("/"), StringForm(q[1])>> \o Slashed(Tail(q))

\* C25 as stated: falsy path segments are dropped without trace. For every
\* section, endpoint and sequence of path segments the URL built is the URL
\* built from the non-falsy segments alone; when every segment supplied is
\* falsy (None, "" or 0) it is exactly base/endpoint, with no trailing slash
\* and no empty segment.
C25_FalsyDropped ==
    GetSent =>
        tx.sent[1].url = <<LitV(ExpectedBase(tx.section)), LitV("/"), LitV(tx.endpoint)>>
                            \o Slashed(SelectSeq(tx.args, NonEmpty))

\* the coin path segment get_current_prices_of_tokens_by_contract_address
\* sends for coins
CurrentPricesSegment(coins) ==
    GetCurrentPrices(PrepareCoins(Start("c1", NoFailure, NoOrder), coins), NoneV).gets[1].url[7]

\* C26 as stated: get_earliest_timestamp_price_record_for_coins accepts the
\* coin input shapes of the other pricing methods, and for every such input
\* the coin path segment of its request is the comma-joined chain:address
\* serialization of the input in input order, the segment that
\* get_current_prices_of_tokens_by_contract_address sends for the same input.
C26_EarliestSerialized ==
    (last.method = "get_earliest_timestamp_price_record_for_coins" /\ last.gets # <<>>) =>
        /\ Len(last.gets[1].url) = 7
        /\ last.gets[1].url[7] = StrV(IF last.args[1].t = "list" THEN Serialized(last.args[1].items)
                                      ELSE TokenOf(last.args[1]))
        /\ last.gets[1].url[7] = CurrentPricesSegment(last.args[1])

\* the values the endpoint request of the call carries for the query
\* parameter name
SentFor(call, name) ==
    UNION {{call.gets[i].query[j].val :
               j \in {k \in DOMAIN call.gets[i].query : call.gets[i].query[k].name = name}} :
           i \in EndpointGets(call)}

\* C27 as stated: get_token_prices_candle sends as the start query parameter
\* the start timestamp the caller supplied, unchanged, and omits the
\* parameter when the caller supplies none; no start value makes it raise.
C27_StartUnchanged ==
    last.method = "get_token_prices_candle" =>
        /\ last.err.exc # "OverflowError"
        /\ EndpointGets(last) # {} =>
              SentFor(last, "start") = IF last.args[2] = NoneV THEN {} ELSE {PyStr(last.args[2])}

\* ------------------------------------------ claims on a failing network
\* the exceptions a defining fetch raises: transport error, decode error,
\* missing field
FetchErrors == {"HTTPError", "InvalidResponseDataException", "KeyError", "TypeError"}

\* the call raised a fetch error on the defining fetch of a, the request it
\* sent last
FetchFailed(call, a) ==
    /\ call.err.exc \in FetchErrors
    /\ call.gets # <<>>
    /\ call.gets[Len(call.gets)].for = a

\* C28: a failed listing fetch is never cached. A call that sends the
\* defining fetch of a category stores the listing unless the fetch raises
\* (transport error, decode error or missing field); then the error reaches
\* the caller, the category stays unpopulated and every listing of another
\* category is as it was. A call that reads an unpopulated category, after
\* a failure as at first, sends the fetch.
C28_FailedFetchNotCached ==
    [][CallMade =>
          \A a \in Attrs :
             /\ FetchesOf(last', a) # {} =>
                   IF FetchFailed(last', a)
                   THEN /\ ~IsSet(cache'[last'.client][a])
                        /\ last'.ret.kind = "none"
                        /\ \A b \in Attrs \ {a} : cache'[last'.client][b] = cache[last'.client][b]
                   ELSE IsSet(cache'[last'.client][a])
             /\ (a \in ReadBy(last'.method) /\ ~IsSet(cache[last'.client][a])) =>
                   Cardinality(FetchesOf(last', a)) = 1]_vars

\* the second call, list_bridges, got a payload without "bridges": KeyError,
\* no bridges listing stored, the chains listing of the first call kept
C28_Witness ==
    /\ calls = 2
    /\ last.method = "list_bridges"
    /\ last.err.exc = "KeyError"
    /\ FetchesOf(last, "_bridges") = {1}
    /\ ~IsSet(cache["c1"]["_bridges"])
    /\ IsSet(cache["c1"]["_chains"])

\* ------------------------------------------ claims on optional identifiers
\* C29: an absent optional identifier. A call whose optional bridge or
\* stablecoin argument is None neither reads nor populates the listing of
\* that identifier: it sends no defining fetch for it and leaves it as it
\* was; when the call succeeds its one endpoint request carries that
\* parameter as None. get_stablecoin_historical_market_cap(None) sends
\* exactly one request.
C29_AbsentOptional ==
    [][(CallMade /\ HasOptional(last') /\ OptionalArg(last') = NoneV) =>
          /\ FetchesOf(last', OptionalSite(last').attr) = {}
          /\ cache'[last'.client][OptionalSite(last').attr]
                = cache[last'.client][OptionalSite(last').attr]
          /\ last'.err.exc = "none" =>
                (SentAsNone(last') /\ Cardinality(EndpointGets(last')) = 1)
          /\ last'.method = "get_stablecoin_historical_market_cap" =>
                (Len(last'.gets) = 1 /\ EndpointGets(last') = {1})]_vars

\* get_bridge_volume(chain) without a bridge on a fresh client: the dex
\* chains fetch and the bridgevolume request with id=None, and no bridges
\* listing stored
C29_Witness ==
    /\ calls = 1
    /\ last.method = "get_bridge_volume"
    /\ last.args[2] = NoneV
    /\ last.err.exc = "none"
    /\ Len(last.gets) = 2
    /\ SentAsNone(last)
    /\ ~IsSet(cache["c1"]["_bridges"])
    /\ IsSet(cache["c1"]["_dex_chains"])

\* ------------------------------------------ claims on listing population
\* the public overview method the body of a dex, options or fees listing
\* calls ("" for the listings whose body calls _get itself)
OverviewMethod(attr) ==
    CASE attr \in {"_dex_protocols", "_dex_chains"} -> "get_dexes_volume_overview"
      [] attr \in {"_dex_options_protocols", "_dex_options_chains"} -> "get_overview_dexes_options"
      [] attr \in {"_fees_protocols", "_fees_chains"} -> "get_fees_and_revenues_for_all_protocols"
      [] OTHER -> ""

\* the categories the call made in this step populated
Populated == {a \in Attrs : ~IsSet(cache[last'.client][a]) /\ IsSet(cache'[last'.client][a])}

\* C30: listing population cannot recurse. The first access to a listing
\* category, on a client in any cache state, sends exactly one GET, its
\* defining fetch, and changes no other category; in every call each
\* category populated took exactly one fetch of its own and no fetch went to
\* a category that was not being populated; the fetch of a dex, options or
\* fees listing is the one request of the public overview method.
C30_NoRecursion ==
    [][CallMade =>
          /\ \A lm \in ListMethods :
                (last'.method = lm.method /\ ~IsSet(cache[last'.client][lm.attr])) =>
                   /\ Len(last'.gets) = 1
                   /\ last'.gets[1].for = lm.attr
                   /\ Populated \subseteq {lm.attr}
                   /\ \A b \in Attrs \ {lm.attr} : cache'[last'.client][b] = cache[last'.client][b]
          /\ \A a \in Populated : Cardinality(FetchesOf(last', a)) = 1
          /\ \A a \in Attrs \ Populated : FetchesOf(last', a) # {} => FetchFailed(last', a)
          /\ \A a \in Attrs : \A i \in FetchesOf(last', a) :
                OverviewMethod(a) # "" =>
                   \E pm \in PlainMethods :
                      /\ pm.method = OverviewMethod(a)
                      /\ last'.gets[i].url = pm.request.url
                      /\ last'.gets[i].params = pm.request.params]_vars

\* list_fees_chains on a client that holds the chains listing: one GET, to
\* fees/overview/fees; the fees chains stored, the fees protocols and every
\* other category as before
C30_Witness ==
    /\ calls = 2
    /\ last.method = "list_fees_chains"
    /\ last.err.exc = "none"
    /\ Len(last.gets) = 1
    /\ last.gets[1].for = "_fees_chains"
    /\ last.gets[1].url = FeesOverviewRequest.url
    /\ IsSet(cache["c1"]["_fees_chains"])
    /\ IsSet(cache["c1"]["_chains"])
    /\ \A a \in Attrs \ {"_fees_chains", "_chains"} : ~IsSet(cache["c1"][a])

\* ------------------------------------------------------------------ C21
\* the thread ran the property body and the fetch was answered with a listing
Fetched(i) == th.t[i].fetches = 1 /\ th.t[i].err.exc = "none" /\ th.t[i].pc \in {"computed", "done"}

\* the threads that stored the result of their fetch
StoredBy == {i \in Threads : Fetched(i) /\ th.t[i].pc = "done"}

\* the complete listings a fetch of attr answered with version v computes
CompleteListings(attr, v) ==
    {BuildListing(attr, v, [chains |-> oc, protocols |-> op]) :
        oc \in IF attr = "_chains" THEN Orderings(ChainSet(v)) ELSE {<<>>},
        op \in IF attr = "_protocols" THEN Orderings(ProtocolSet(v)) ELSE {<<>>}}

RaceOutcome ==
    /\ \A i \in Threads : th.t[i].fetches <= 1
    /\ \A i \in Threads : Fetched(i) => th.t[i].val \in CompleteListings(th.attr, th.t[i].ver)
    /\ StoredBy # {} => \E i \in StoredBy : cache["c1"][th.attr] = th.t[i].val
    /\ (StoredBy = {} /\ calls = 0) => ~IsSet(cache["c1"][th.attr])

\* C21: the race on the first access is benign. When two threads make the
\* first access to the same listing category of one instance, each thread
\* sends the defining fetch at most once, the stored listing is the complete
\* result of one of those fetches (never a mix of two, never a part of one),
\* and every access after both threads returned is answered from it, without
\* a fetch and without changing it.
C21_BenignRace ==
    [][/\ RaceOutcome'
       /\ (ThreadsDone /\ StoredBy # {} /\ calls' = calls + 1
           /\ \E lm \in ListMethods : lm.attr = th.attr /\ lm.method = last'.method)
          => /\ last'.gets = <<>>
             /\ last'.err.exc = "none"
             /\ last'.ret.listing = cache["c1"][th.attr]
             /\ cache' = cache
             /\ fetched' = fetched]_vars

\* without a lock both threads fetched, the first before and the second after
\* the upstream data changed; the older result was stored last and stays: a
\* later list_bridges is answered from it without a fetch
C21_Witness ==
    /\ ~th.locked
    /\ th.attr = "_bridges"
    /\ ThreadsDone
    /\ StoredBy = Threads
    /\ th.t[1].ver = 1
    /\ th.t[2].ver = 2
    /\ th.t[1].val # th.t[2].val
    /\ cache["c1"]["_bridges"] = th.t[1].val
    /\ fetched["c1"]["_bridges"] = 2
    /\ calls = 1
    /\ last.method = "list_bridges"
    /\ last.gets = <<>>
    /\ last.ret.listing = th.t[1].val
====
